---- MODULE Spec2Model ----
(***************************************************************************)
(* Model of src/test_solutions.py: the TestRunner that loads task files,   *)
(* validates their assertions against the declared signatures, runs the    *)
(* embedded solution on every assertion, reports and emits the release.    *)
(*                                                                         *)
(* Python values are tagged records:                                       *)
(*   int    [t |-> "int", hi |-> a, lo |-> b]   the integer a * 10^5 + b   *)
(*                                        with 0 <= b < 10^5: Python ints  *)
(*                                        are unbounded, and the bounds of *)
(*                                        check_int_bounds lie at the edge *)
(*                                        of the 32-bit range              *)
(*   bool   [t |-> "bool",  b |-> TRUE]                                    *)
(*   float  [t |-> "float", h |-> n]      the float n/2 (5.0 is h = 10)    *)
(*   str    [t |-> "str",   s |-> "a"]    an atomic string                 *)
(*   str    [t |-> "msg",   m |-> <<..>>] a formatted string, as the       *)
(*                                        sequence of the pieces the       *)
(*                                        f-string concatenates            *)
(*   list   [t |-> "list",  l |-> <<v1, v2>>]                              *)
(*   dict   [t |-> "dict",  d |-> <<<<k1, v1>>, <<k2, v2>>>>]  insertion   *)
(*                                        order, keys pairwise distinct    *)
(*   None   [t |-> "none"]                                                 *)
(* A type descriptor {"name": n, "nested": {...}} has exactly one child,   *)
(* so it is the sequence of its names from the root: array<hash<integer>>  *)
(* is <<"array", "hash", "integer">>.                                      *)
(***************************************************************************)
EXTENDS Integers, Sequences, FiniteSets, TLC

----------------------------------------------------------------------------
(* Bounds of the model *)

\* number of task files in the directory that is walked
NumFiles == 2

\* largest number of asserts of a task
MaxAsserts == 2

\* largest length of a list given to a function that is examined on its own
MaxListLen == 2

----------------------------------------------------------------------------
(* Python values *)

PyBigInt(a, b) == [t |-> "int", hi |-> a, lo |-> b]

PyInt(n) == PyBigInt(n \div 100000, n % 100000)

PyBool(x) == [t |-> "bool", b |-> x]

PyFloat(halves) == [t |-> "float", h |-> halves]

PyStr(x) == [t |-> "str", s |-> x]

PyMsg(tokens) == [t |-> "msg", m |-> tokens]

PyList(x) == [t |-> "list", l |-> x]

PyDict(x) == [t |-> "dict", d |-> x]

PyNone == [t |-> "none"]

\* isinstance(v, str)
IsStr(v) == v.t \in {"str", "msg"}

\* isinstance(v, int): bool is a subclass of int
IsIntInstance(v) == v.t \in {"int", "bool"}

\* type(v).__name__
TypeName(v) ==
    CASE v.t = "int" -> "int"
      [] v.t = "bool" -> "bool"
      [] v.t = "float" -> "float"
      [] v.t \in {"str", "msg"} -> "str"
      [] v.t = "list" -> "list"
      [] v.t = "dict" -> "dict"
      [] OTHER -> "NoneType"

\* the pieces of a string
StrTokens(v) == IF v.t = "str" THEN <<v.s>> ELSE v.m

IsNum(v) == v.t \in {"int", "bool", "float"}

\* a number without a fractional part
IsWhole(v) == v.t \in {"int", "bool"} \/ (v.t = "float" /\ v.h % 2 = 0)

\* the limbs <<hi, lo>> of a whole number; True is 1 and False is 0
Whole(v) ==
    CASE v.t = "int" -> <<v.hi, v.lo>>
      [] v.t = "bool" -> <<0, IF v.b THEN 1 ELSE 0>>
      [] OTHER -> <<(v.h \div 2) \div 100000, (v.h \div 2) % 100000>>

\* Python's == on int, bool and float
NumEq(a, b) ==
    IF a.t = "float" /\ b.t = "float"
    THEN a.h = b.h
    ELSE IsWhole(a) /\ IsWhole(b) /\ Whole(a) = Whole(b)

\* a <= b on ints
IntLeq(a, b) == a.hi < b.hi \/ (a.hi = b.hi /\ a.lo <= b.lo)

\* a < b on ints
IntLess(a, b) == a.hi < b.hi \/ (a.hi = b.hi /\ a.lo < b.lo)

\* the five decimal digits of a low limb
Pad5(n) ==
    CASE n < 10 -> "0000" \o ToString(n)
      [] n >= 10 /\ n < 100 -> "000" \o ToString(n)
      [] n >= 100 /\ n < 1000 -> "00" \o ToString(n)
      [] n >= 1000 /\ n < 10000 -> "0" \o ToString(n)
      [] OTHER -> ToString(n)

\* the decimal text of the non-negative number a * 10^5 + b
Dec(a, b) == IF a = 0 THEN ToString(b) ELSE ToString(a) \o Pad5(b)

\* str(v) of an int
IntText(v) ==
    IF v.hi >= 0 THEN Dec(v.hi, v.lo)
    ELSE IF v.lo = 0 THEN "-" \o Dec(-v.hi, 0)
    ELSE "-" \o Dec(-v.hi - 1, 100000 - v.lo)

RECURSIVE PyEq(_, _)
\* Python's ==
PyEq(a, b) ==
    CASE IsNum(a) /\ IsNum(b) -> NumEq(a, b)
      [] IsStr(a) /\ IsStr(b) -> StrTokens(a) = StrTokens(b)
      [] a.t = "list" /\ b.t = "list" ->
            /\ Len(a.l) = Len(b.l)
            /\ \A j \in 1..Len(a.l) : PyEq(a.l[j], b.l[j])
      [] a.t = "dict" /\ b.t = "dict" ->
            /\ Len(a.d) = Len(b.d)
            /\ \A j \in 1..Len(a.d) :
                   \E k \in 1..Len(b.d) :
                       /\ PyEq(a.d[j][1], b.d[k][1])
                       /\ PyEq(a.d[j][2], b.d[k][2])
      [] a.t = "none" /\ b.t = "none" -> TRUE
      [] OTHER -> FALSE

----------------------------------------------------------------------------
(* Strings of the model, and the string functions of the library *)

\* the two texts the error handler of run_tests searches for
NoEntryPointText == "Solution code does not define a 'solution' function"

NoSolutionText == "THERE IS NO SOLUTION"

\* str.lower()
Lower(x) ==
    CASE x = "A" -> "a"
      [] x = "X" -> "x"
      [] x = NoSolutionText -> "there is no solution"
      [] x = NoEntryPointText -> "solution code does not define a 'solution' function"
      [] x = "TYPE ERROR: " -> "type error: "
      [] OTHER -> x

\* str.isdigit()
IsDigit(x) == x \in {"5", "1", "007", "7", "3"}

\* json.loads(x) for the texts that decode to a list or a dict; PyNone for
\* every other text (no JSON, or a JSON primitive)
JsonLoads(x) ==
    CASE x = "[1,2,3]" -> PyList(<<PyInt(1), PyInt(2), PyInt(3)>>)
      [] x = "[1,2]" -> PyList(<<PyInt(1), PyInt(2)>>)
      [] x = "[1, 2]" -> PyList(<<PyInt(1), PyInt(2)>>)
      [] x = "[[1,2]]" -> PyList(<<PyList(<<PyInt(1), PyInt(2)>>)>>)
      [] x = "[\"[1,2]\"]" -> PyList(<<PyStr("[1,2]")>>)
      [] x = "[\"[2147483647]\"]" -> PyList(<<PyStr("[2147483647]")>>)
      [] x = "[true]" -> PyList(<<PyBool(TRUE)>>)
      [] x = "[5]" -> PyList(<<PyInt(5)>>)
      [] x = "[2147483646]" -> PyList(<<PyBigInt(21474, 83646)>>)
      [] x = "[2147483647]" -> PyList(<<PyBigInt(21474, 83647)>>)
      [] x = "{\"a\": 5}" -> PyDict(<<<<PyStr("a"), PyInt(5)>>>>)
      [] OTHER -> PyNone

\* _try_json_container that returns whatever the text decodes to, the JSON
\* primitives included
_try_json_container_any_json(v) ==
    IF v.t # "str" THEN PyNone
    ELSE CASE v.s = "5" -> PyInt(5)
           [] v.s = "3" -> PyInt(3)
           [] v.s = "true" -> PyBool(TRUE)
           [] OTHER -> JsonLoads(v.s)

\* _try_json_container: the parsed list/dict, or None
_try_json_container(v) ==
    IF v.t # "str" THEN PyNone ELSE JsonLoads(v.s)

\* _coerce_for_typecheck that leaves a JSON text as it is
_coerce_for_typecheck_unchanged(v) == v

\* _coerce_for_typecheck
_coerce_for_typecheck(v) ==
    LET j == _try_json_container(v) IN IF j # PyNone THEN j ELSE v

----------------------------------------------------------------------------
(* Signatures *)

Primitives == {"string", "boolean", "integer", "float"}

\* ALLOWED_SIGNATURES, each entry {"type": descriptor}
ALLOWED_SIGNATURES ==
    {[type |-> c] : c \in
        {<<p>> : p \in Primitives}
        \cup {<<"array", p>> : p \in Primitives}
        \cup {<<"hash", p>> : p \in Primitives}
        \cup {<<a, b, p>> : a \in {"array"}, b \in {"array", "hash"},
                            p \in {"string", "boolean", "integer"}}
        \cup {<<"hash", "hash", p>> : p \in {"string", "boolean", "integer"}}
        \cup {<<"array", b, c2, p>> : b \in {"array", "hash"}, c2 \in {"array", "hash"},
                                     p \in {"string", "boolean", "integer"}}
        \cup {<<"array", "hash", "hash", "hash", "array", p>> :
                                     p \in {"string", "boolean", "integer"}}}

RECURSIVE WellFormed(_)
\* the descriptor is containers around a primitive
WellFormed(c) ==
    /\ c # <<>>
    /\ IF Len(c) = 1 THEN c[1] \in Primitives
       ELSE c[1] \in {"array", "hash"} /\ WellFormed(Tail(c))

\* validate_signature that accepts every well-formed descriptor
validate_signature_well_formed(signature, signature_type) ==
    IF ~WellFormed(signature.type)
    THEN <<"Invalid ", signature_type, ": ">> \o signature.type
             \o <<" is not in the allowed signatures list">>
    ELSE <<>>

\* validate_signature: the error it raises, <<>> when it raises none
validate_signature(signature, signature_type) ==
    IF signature \notin ALLOWED_SIGNATURES
    THEN <<"Invalid ", signature_type, ": ">> \o signature.type
             \o <<" is not in the allowed signatures list">>
    ELSE <<>>

RECURSIVE signature_to_str(_)
\* signature_to_str, as the pieces of the rendering
signature_to_str(sig) ==
    LET name == Head(sig) IN
    IF name \in Primitives THEN <<name>>
    ELSE IF name \in {"array", "hash"}
    THEN <<name, "<">> \o signature_to_str(Tail(sig)) \o <<">">>
    ELSE sig

\* _is_int without the exclusion of bool
_is_int_with_bool(v) == IsIntInstance(v)

\* _is_int: bool is excluded
_is_int(v) == IsIntInstance(v) /\ v.t # "bool"

\* _is_float
_is_float(v) == v.t = "float"

\* the text of a dict key inside an f-string
KeyText(k) == IF k.t = "str" THEN k.s ELSE IF k.t = "int" THEN IntText(k) ELSE TypeName(k)

\* the result tuple (ok, error_message_or_None) of type_matches
MatchOk == [ok |-> TRUE, err |-> <<>>]

MatchFail(msg) == [ok |-> FALSE, err |-> msg]

RECURSIVE type_matches(_, _, _)
RECURSIVE type_matches_items(_, _, _, _)
RECURSIVE type_matches_values(_, _, _, _)

\* the loop of type_matches over the elements of a list that goes through
\* every element and returns the error of the last one that fails
type_matches_items_last_error(nested, items, path, j) ==
    LET at(i) == path \o <<"[", ToString(i - 1), "]">>
        bad == {i \in j..Len(items) : ~type_matches(nested, items[i], at(i)).ok}
    IN IF bad = {} THEN MatchOk
       ELSE LET last == CHOOSE i \in bad : \A k \in bad : k <= i IN
            type_matches(nested, items[last], at(last))

\* the loop of type_matches over the elements of a list, from index j (1-based)
type_matches_items(nested, items, path, j) ==
    IF j > Len(items) THEN MatchOk
    ELSE LET r == type_matches(nested, items[j], path \o <<"[", ToString(j - 1), "]">>) IN
         IF ~r.ok THEN r ELSE type_matches_items(nested, items, path, j + 1)

\* the loop of type_matches over the items of a dict, from item j
type_matches_values(nested, pairs, path, j) ==
    IF j > Len(pairs) THEN MatchOk
    ELSE LET r == type_matches(nested, pairs[j][2], path \o <<".", KeyText(pairs[j][1])>>) IN
         IF ~r.ok THEN r ELSE type_matches_values(nested, pairs, path, j + 1)

\* type_matches(sig, value, path)
type_matches(sig, value, path) ==
    LET name == Head(sig)
        v == _coerce_for_typecheck(value)
    IN
    CASE name = "string" ->
            IF IsStr(v) THEN MatchOk
            ELSE MatchFail(path \o <<" expected string, got ", TypeName(v)>>)
      [] name = "boolean" ->
            IF v.t = "bool" THEN MatchOk
            ELSE MatchFail(path \o <<" expected boolean, got ", TypeName(v)>>)
      [] name = "integer" ->
            IF _is_int(v) THEN MatchOk
            ELSE MatchFail(path \o <<" expected integer, got ", TypeName(v)>>)
      [] name = "float" ->
            IF _is_float(v) THEN MatchOk
            ELSE MatchFail(path \o <<" expected float, got ", TypeName(v)>>)
      [] name = "array" ->
            IF v.t # "list"
            THEN MatchFail(path \o <<" expected array/list, got ", TypeName(v)>>)
            ELSE type_matches_items(Tail(sig), v.l, path, 1)
      [] name = "hash" ->
            IF v.t # "dict"
            THEN MatchFail(path \o <<" expected hash/dict, got ", TypeName(v)>>)
            ELSE type_matches_values(Tail(sig), v.d, path, 1)
      [] OTHER -> MatchFail(path \o <<" has unknown signature: ">> \o sig)

----------------------------------------------------------------------------
(* Integer bounds *)

\* INT32_MIN = -2147483648
INT32_MIN == PyBigInt(-21475, 16352)

\* the exclusive bound taken for the largest 32-bit integer plus one
INT32_MAX_EXCLUSIVE_plus_one == PyBigInt(21474, 83648)

\* INT32_MAX_EXCLUSIVE = 2147483647
INT32_MAX_EXCLUSIVE == PyBigInt(21474, 83647)

RECURSIVE check_int_bounds(_, _, _)
RECURSIVE check_int_bounds_items(_, _, _, _)
RECURSIVE check_int_bounds_values(_, _, _, _)

\* the loop of check_int_bounds over the elements of a list, from index j
check_int_bounds_items(nested, items, path, j) ==
    IF j > Len(items) THEN <<>>
    ELSE LET e == check_int_bounds(nested, items[j], path \o <<"[", ToString(j - 1), "]">>) IN
         IF e # <<>> THEN e ELSE check_int_bounds_items(nested, items, path, j + 1)

\* the loop of check_int_bounds over the items of a dict, from item j
check_int_bounds_values(nested, pairs, path, j) ==
    IF j > Len(pairs) THEN <<>>
    ELSE LET e == check_int_bounds(nested, pairs[j][2], path \o <<".", KeyText(pairs[j][1])>>) IN
         IF e # <<>> THEN e ELSE check_int_bounds_values(nested, pairs, path, j + 1)

\* check_int_bounds(sig, value, path): the error it raises, <<>> when none
check_int_bounds(sig, value, path) ==
    LET name == Head(sig)
        v == _coerce_for_typecheck(value)
    IN
    CASE name = "integer" ->
            IF _is_int(v) /\ ~(IntLeq(INT32_MIN, v) /\ IntLess(v, INT32_MAX_EXCLUSIVE))
            THEN path \o <<": integer ", IntText(v), " is out of C++ 32-bit int range [",
                           IntText(INT32_MIN), ", ", IntText(INT32_MAX_EXCLUSIVE), ")">>
            ELSE <<>>
      [] name = "array" ->
            IF v.t = "list" THEN check_int_bounds_items(Tail(sig), v.l, path, 1) ELSE <<>>
      [] name = "hash" ->
            IF v.t = "dict" THEN check_int_bounds_values(Tail(sig), v.d, path, 1) ELSE <<>>
      [] OTHER -> <<>>

----------------------------------------------------------------------------
(* Equality and normalization *)

\* an exception raised inside a function that otherwise returns a value
PyRaise(msg) == [t |-> "raise", m |-> msg]

IsRaise(v) == v.t = "raise"

\* d[k] = v on the item list of a dict: an existing key keeps its position
DictSet(pairs, k, v) ==
    IF \E j \in 1..Len(pairs) : PyEq(pairs[j][1], k)
    THEN [j \in 1..Len(pairs) |-> IF PyEq(pairs[j][1], k) THEN <<pairs[j][1], v>> ELSE pairs[j]]
    ELSE Append(pairs, <<k, v>>)

\* a dict key taken as it is
KeyLower_unchanged(k) == k

\* k.lower() of a dict key: only a str has the method
KeyLower(k) ==
    CASE k.t = "str" -> PyStr(Lower(k.s))
      [] k.t = "msg" -> PyMsg([j \in 1..Len(k.m) |-> Lower(k.m[j])])
      [] OTHER -> PyRaise(<<"'", TypeName(k), "' object has no attribute 'lower'">>)

RECURSIVE normalize_output(_)
RECURSIVE normalize_output_items(_, _, _)
RECURSIVE normalize_output_pairs(_, _, _)

\* the list comprehension of normalize_output, from index j, onto acc
normalize_output_items(items, j, acc) ==
    IF j > Len(items) THEN PyList(acc)
    ELSE LET x == normalize_output(items[j]) IN
         IF IsRaise(x) THEN x ELSE normalize_output_items(items, j + 1, Append(acc, x))

\* the dict comprehension of normalize_output, from item j, onto acc
normalize_output_pairs(pairs, j, acc) ==
    IF j > Len(pairs) THEN PyDict(acc)
    ELSE LET k == KeyLower(pairs[j][1]) IN
         IF IsRaise(k) THEN k
         ELSE LET x == normalize_output(pairs[j][2]) IN
              IF IsRaise(x) THEN x
              ELSE normalize_output_pairs(pairs, j + 1, DictSet(acc, k, x))

\* normalize_output(value)
normalize_output(value) ==
    CASE value.t = "dict" -> normalize_output_pairs(value.d, 1, <<>>)
      [] value.t = "list" -> normalize_output_items(value.l, 1, <<>>)
      [] value.t = "str" -> PyStr(Lower(value.s))
      [] value.t = "msg" -> PyMsg([j \in 1..Len(value.m) |-> Lower(value.m[j])])
      [] OTHER -> value

\* str.isdigit() of a str value
StrIsDigit(v) == v.t = "str" /\ IsDigit(v.s)

\* values_equal that normalizes actual only
values_equal_normalize_actual_only(actual, expected) ==
    IF PyEq(actual, expected) THEN PyBool(TRUE)
    ELSE IF IsStr(actual) /\ IsStr(expected) /\ StrIsDigit(actual) /\ StrIsDigit(expected)
    THEN PyBool(PyEq(actual, expected))
    ELSE LET na == normalize_output(actual) IN
         IF IsRaise(na) THEN na ELSE PyBool(PyEq(na, expected))

\* values_equal(actual, expected): PyBool(result), or the exception raised
values_equal(actual, expected) ==
    IF PyEq(actual, expected) THEN PyBool(TRUE)
    ELSE IF IsStr(actual) /\ IsStr(expected) /\ StrIsDigit(actual) /\ StrIsDigit(expected)
    THEN PyBool(PyEq(actual, expected))
    ELSE LET na == normalize_output(actual) IN
         IF IsRaise(na) THEN na
         ELSE LET ne == normalize_output(expected) IN
              IF IsRaise(ne) THEN ne ELSE PyBool(PyEq(na, ne))

----------------------------------------------------------------------------
(* Differences *)

\* one entry of the list find_difference returns: the path, the kind of the
\* text after the arrow, and the values the text holds
Difference(path, what, expected, actual) ==
    [path |-> path, what |-> what, expected |-> expected, actual |-> actual]

\* the smaller of two numbers
Min(a, b) == IF a < b THEN a ELSE b

\* the list of differences find_difference returns
Differences(ds) == [t |-> "differences", l |-> ds]

\* isinstance(v, (list, dict))
IsContainer(v) == v.t \in {"list", "dict"}

\* key in d, on the item list of a dict
DictHas(pairs, k) == \E j \in 1..Len(pairs) : PyEq(pairs[j][1], k)

\* d[key], on the item list of a dict that has the key
DictGet(pairs, k) == pairs[CHOOSE j \in 1..Len(pairs) : PyEq(pairs[j][1], k)][2]

\* no entry for the elements expected has beyond the shorter length
MissingElements_none(expected, min_len, path) == <<>>

\* the loop of find_difference over range(min_len, len(expected))
MissingElements(expected, min_len, path) ==
    [j \in 1..(Len(expected) - min_len) |->
        Difference(path \o <<"[", ToString(min_len + j - 1), "]">>, "missing element",
                   expected[min_len + j], PyNone)]

\* the loop of find_difference over range(min_len, len(actual))
ExtraElements(actual, min_len, path) ==
    [j \in 1..(Len(actual) - min_len) |->
        Difference(path \o <<"[", ToString(min_len + j - 1), "]">>, "extra element",
                   PyNone, actual[min_len + j])]

\* no entry for the keys that only actual has
ExtraKeys_none(actual, expected, path) == <<>>

\* the loop of find_difference over the keys of actual
ExtraKeys(actual, expected, path) ==
    LET extra == SelectSeq(actual, LAMBDA p : ~DictHas(expected, p[1])) IN
    [j \in 1..Len(extra) |->
        Difference(path \o <<".", KeyText(extra[j][1])>>, "extra key", PyNone, extra[j][2])]

RECURSIVE find_difference(_, _, _)
RECURSIVE find_difference_items(_, _, _, _, _, _)
RECURSIVE find_difference_keys(_, _, _, _, _)

\* the loop of find_difference over range(min_len), from index j (1-based),
\* onto acc
find_difference_items(actual, expected, path, min_len, j, acc) ==
    IF j > min_len THEN Differences(acc)
    ELSE LET new_path == path \o <<"[", ToString(j - 1), "]">>
             eq == values_equal(actual[j], expected[j])
         IN
         IF IsRaise(eq) THEN eq
         ELSE IF eq.b THEN find_difference_items(actual, expected, path, min_len, j + 1, acc)
         ELSE IF IsContainer(expected[j]) /\ IsContainer(actual[j])
         THEN LET r == find_difference(actual[j], expected[j], new_path) IN
              IF IsRaise(r) THEN r
              ELSE find_difference_items(actual, expected, path, min_len, j + 1, acc \o r.l)
         ELSE find_difference_items(actual, expected, path, min_len, j + 1,
                  Append(acc, Difference(new_path, "expected", expected[j], actual[j])))

\* the loop of find_difference over the keys of expected, from item j, onto acc
find_difference_keys(actual, expected, path, j, acc) ==
    IF j > Len(expected) THEN Differences(acc)
    ELSE LET key == expected[j][1]
             new_path == path \o <<".", KeyText(key)>>
         IN
         IF ~DictHas(actual, key)
         THEN find_difference_keys(actual, expected, path, j + 1,
                  Append(acc, Difference(new_path, "missing key", PyNone, PyNone)))
         ELSE LET eq == values_equal(DictGet(actual, key), expected[j][2]) IN
              IF IsRaise(eq) THEN eq
              ELSE IF eq.b THEN find_difference_keys(actual, expected, path, j + 1, acc)
              ELSE IF IsContainer(expected[j][2]) /\ IsContainer(DictGet(actual, key))
              THEN LET r == find_difference(DictGet(actual, key), expected[j][2], new_path) IN
                   IF IsRaise(r) THEN r
                   ELSE find_difference_keys(actual, expected, path, j + 1, acc \o r.l)
              ELSE find_difference_keys(actual, expected, path, j + 1,
                       Append(acc, Difference(new_path, "expected", expected[j][2],
                                              DictGet(actual, key))))

\* find_difference(actual, expected, path): the list of differences, or the
\* exception values_equal raised
find_difference(actual, expected, path) ==
    IF expected.t = "list" /\ actual.t = "list"
    THEN LET min_len == Min(Len(expected.l), Len(actual.l))
             head == IF Len(expected.l) # Len(actual.l)
                     THEN <<Difference(path, "different number of elements",
                                       PyInt(Len(expected.l)), PyInt(Len(actual.l)))>>
                     ELSE <<>>
             r == find_difference_items(actual.l, expected.l, path, min_len, 1, head)
         IN IF IsRaise(r) THEN r
            ELSE Differences(r.l \o ExtraElements(actual.l, min_len, path)
                                 \o MissingElements(expected.l, min_len, path))
    ELSE IF expected.t = "dict" /\ actual.t = "dict"
    THEN LET r == find_difference_keys(actual.d, expected.d, path, 1, <<>>) IN
         IF IsRaise(r) THEN r
         ELSE Differences(r.l \o ExtraKeys(actual.d, expected.d, path))
    ELSE LET eq == values_equal(actual, expected) IN
         IF IsRaise(eq) THEN eq
         ELSE IF eq.b THEN Differences(<<>>)
         ELSE Differences(<<Difference(path, "expected", expected, actual)>>)

----------------------------------------------------------------------------
(* Formatting *)

\* repr of a float
FloatText(v) == ToString(v.h \div 2) \o (IF v.h % 2 = 0 THEN ".0" ELSE ".5")

RECURSIVE format_value(_)
RECURSIVE format_value_items(_, _)
RECURSIVE format_value_pairs(_, _)

\* the lines format_value makes of the elements of a list, from index j
format_value_items(items, j) ==
    IF j > Len(items) THEN <<>>
    ELSE format_value(items[j]) \o <<",">> \o format_value_items(items, j + 1)

\* the lines format_value makes of the items of a dict, from item j
format_value_pairs(pairs, j) ==
    IF j > Len(pairs) THEN <<>>
    ELSE <<KeyText(pairs[j][1]), ": ">> \o format_value(pairs[j][2]) \o <<",">>
             \o format_value_pairs(pairs, j + 1)

\* format_value(value), without colour: the pieces of the text
format_value(value) ==
    CASE value.t = "list" ->
            IF value.l = <<>> THEN <<"[]">>
            ELSE <<"[">> \o format_value_items(value.l, 1) \o <<"]">>
      [] value.t = "dict" ->
            IF value.d = <<>> THEN <<"{}">>
            ELSE <<"{">> \o format_value_pairs(value.d, 1) \o <<"}">>
      [] IsStr(value) -> <<"\"">> \o StrTokens(value) \o <<"\"">>
      [] value.t = "int" -> <<IntText(value)>>
      [] value.t = "bool" -> <<IF value.b THEN "True" ELSE "False">>
      [] value.t = "float" -> <<FloatText(value)>>
      [] OTHER -> <<"None">>

----------------------------------------------------------------------------
(* Implementation texts, and what exec and a call make of them *)

\* the record has no "solution" key
SolutionAbsent == "<no solution key>"

Ident == "def solution(x): return x"

Const5 == "def solution(x): return 5"

ToFloat == "def solution(x): return float(x)"

IsOne == "def solution(x): return x == 1"

ToStr == "def solution(x): return str(x)"

RaiseOn1 == "def solution(x): assert x != 1, 'boom'; return x"

IntKeyDict == "def solution(x): return {x: x}"

SortInPlace == "def solution(x): x.sort(); return x"

SyntaxErr == "def solution(x: return x"

ExecRaises == "raise RuntimeError('boom')"

NoEntry == "def helper(x): return x"

NotCallable == "solution = 5"

\* exec(solution_code, namespace): how it ends
Exec(code) ==
    CASE code = SyntaxErr -> [end |-> "SyntaxError", msg |-> <<"'(' was never closed (<string>, line 1)">>]
      [] code = ExecRaises -> [end |-> "Exception", msg |-> <<"boom">>]
      [] code = NoEntry -> [end |-> "no solution", msg |-> <<>>]
      [] code = NotCallable -> [end |-> "not callable", msg |-> <<>>]
      [] OTHER -> [end |-> "function", msg |-> <<>>]

\* str(x) of an argument
PyStrOf(x) ==
    CASE x.t = "int" -> PyStr(IntText(x))
      [] IsStr(x) -> x
      [] OTHER -> PyMsg(format_value(x))

RECURSIVE Insert(_, _)
\* the sorted list of ints l with the int v put at its place
Insert(l, v) ==
    IF l = <<>> THEN <<v>>
    ELSE IF IntLeq(v, Head(l)) THEN <<v>> \o l
    ELSE <<Head(l)>> \o Insert(Tail(l), v)

RECURSIVE Sorted(_)
\* sorted(l) of a list of ints
Sorted(l) == IF l = <<>> THEN <<>> ELSE Insert(Sorted(Tail(l)), Head(l))

\* x.sort() works: x is a list of ints
Sortable(x) == x.t = "list" /\ \A j \in 1..Len(x.l) : x.l[j].t = "int"

\* the objects of the argument list after solution_func(*arguments): a call
\* gets the objects themselves, and x.sort() sorts the list it is given
ArgumentsAfter(code, arguments) ==
    IF code = SortInPlace /\ Len(arguments) = 1 /\ Sortable(arguments[1])
    THEN <<PyList(Sorted(arguments[1].l))>>
    ELSE arguments

\* solution_func(*arguments): the value returned, or the exception raised
Invoke(code, arguments) ==
    IF Len(arguments) # 1
    THEN PyRaise(<<"solution() takes 1 positional argument but ", ToString(Len(arguments)),
                   " were given">>)
    ELSE LET x == arguments[1] IN
         CASE code = Ident -> x
           [] code = Const5 -> PyInt(5)
           [] code = ToFloat ->
                 IF IsWhole(x) /\ Whole(x)[1] = 0 THEN PyFloat(2 * Whole(x)[2])
                 ELSE PyRaise(<<"float() argument must be a string or a real number">>)
           [] code = IsOne -> PyBool(PyEq(x, PyInt(1)))
           [] code = ToStr -> PyStrOf(x)
           [] code = RaiseOn1 -> IF PyEq(x, PyInt(1)) THEN PyRaise(<<"boom">>) ELSE x
           [] code = SortInPlace ->
                 IF Sortable(x) THEN PyList(Sorted(x.l))
                 ELSE PyRaise(<<"'", TypeName(x), "' object has no attribute 'sort'">>)
           [] OTHER -> PyDict(<<<<x, x>>>>)

----------------------------------------------------------------------------
(* Task records: what tomli.load returns for a task file *)

SigAbsent == [form |-> "absent"]

SigSingle(c) == [form |-> "single", type |-> c]

SigList(cs) == [form |-> "list", sigs |-> [j \in 1..Len(cs) |-> [type |-> cs[j]]]]

Assertion(args, exp) == [arguments |-> args, expected |-> exp]

Task(in, out, as, sol) ==
    [name |-> "t", input_signature |-> in, output_signature |-> out,
     asserts |-> as, solution |-> sol]

\* two asserts that conform to input [integer] and output integer
G1 == Assertion(<<PyInt(5)>>, PyInt(5))

G2 == Assertion(<<PyInt(1)>>, PyInt(1))

\* asserts that do not conform to them
BadArity == Assertion(<<>>, PyInt(5))

BadArgType == Assertion(<<PyStr("5")>>, PyInt(5))

BadExpectedType == Assertion(<<PyInt(5)>>, PyBool(TRUE))

BadRange == Assertion(<<PyBigInt(21474, 83647)>>, PyInt(5))

\* an expected value whose key is the text of the "no solution" error
BadKeyed == Assertion(<<PyInt(5)>>, PyDict(<<<<PyStr(NoSolutionText), PyStr("X")>>>>))

\* an assert of a task that sorts: the argument is not in order
Unsorted == Assertion(<<PyList(<<PyInt(5), PyInt(1)>>)>>, PyList(<<PyInt(1), PyInt(5)>>))

\* the assert list of length n that alternates G1 and G2 and starts with G1
\* (first = 1) or with G2 (first = 0)
Alternating(n, first) == [j \in 1..n |-> IF (j + first) % 2 = 0 THEN G1 ELSE G2]

\* the assert lists G1 G2 G1 .. and G2 G1 G2 .. of every length up to MaxAsserts
AssertSeqs == {Alternating(n, first) : n \in 0..MaxAsserts, first \in {0, 1}}

IntIn == SigList(<<<<"integer">>>>)

IntOut == SigSingle(<<"integer">>)

\* the tasks that pass the load-time validation
ValidTasks ==
    {Task(IntIn, IntOut, Alternating(n, 1), Ident) : n \in 0..MaxAsserts}
    \cup {Task(IntIn, IntOut, as, RaiseOn1) : as \in AssertSeqs \ {<<>>}}
    \cup {Task(IntIn, IntOut, <<a>>, Const5) : a \in {G1, G2}}
    \cup {Task(IntIn, IntOut, <<G1>>, sol) : sol \in {ToFloat, ToStr, IntKeyDict}}
    \cup {Task(IntIn, IntOut, <<G2>>, IsOne)}
    \cup {Task(IntIn, IntOut, <<G1>>, sol) :
              sol \in {SolutionAbsent, "", SyntaxErr, ExecRaises, NoEntry, NotCallable}}
    \cup {Task(SigSingle(<<"integer">>), IntOut, <<G1>>, Ident),
          Task(SigAbsent, IntOut, <<Assertion(<<>>, PyInt(5))>>, Ident),
          Task(SigList(<<<<"array", "integer">>>>), SigSingle(<<"array", "integer">>),
               <<Unsorted>>, SortInPlace)}

\* the tasks that fail it
InvalidTasks ==
    {Task(SigList(<<<<"hash", "array", "integer">>>>), IntOut, <<G1>>, Ident),
     Task(SigSingle(<<"hash", "array", "integer">>), IntOut, <<G1>>, Ident),
     Task(IntIn, SigSingle(<<"hash", "array", "integer">>), <<G1>>, Ident),
     Task(IntIn, SigAbsent, <<G1>>, Ident),
     Task(SigAbsent, IntOut, <<G1>>, Ident),
     Task(SigSingle(<<"integer">>), IntOut, <<BadArity>>, Ident),
     Task(IntIn, SigSingle(<<"hash", "integer">>), <<BadKeyed>>, Ident)}
    \cup {Task(IntIn, IntOut, as, Ident) :
              as \in {<<BadArity>>, <<BadArgType>>, <<BadExpectedType>>, <<BadRange>>}
                     \cup (IF MaxAsserts >= 2 THEN {<<G1, BadExpectedType>>} ELSE {})}
    \cup {Task(IntIn, IntOut, <<BadExpectedType>>, NoEntry)}

Tasks == ValidTasks \cup InvalidTasks

----------------------------------------------------------------------------
(* The run: TestRunner.run_tests, print_results and main *)

VARIABLES
    skip_assert_count,  \* TestRunner.skip_assert_count
    files_to_process,   \* the .toml files of the directory, in walk order
    file_idx,           \* position of the for loop of run_tests in files_to_process
    pc,                 \* where the run is
    toml_data_cache,    \* TestRunner.toml_data_cache: file -> task record
    assert_idx,         \* position of the loop of check_assert_types (idx)
    solution_func,      \* the local solution_func of run_tests: the file and text it was made of
    test_results,       \* the local test_results of run_tests
    results,            \* the local results of run_tests: file -> (test_results, task_name)
    has_errors,         \* the local has_errors of run_tests
    printed,            \* what was printed, in order
    release,            \* the files of the release folder: path -> JSON data
    exit_status,        \* "running", then the exit status of the process
    call,               \* the call of a single function that is examined on its own
    toml_files          \* the task files read so far, as they are on disk: file -> content

vars == <<skip_assert_count, files_to_process, file_idx, pc, toml_data_cache, assert_idx,
          solution_func, test_results, results, has_errors, printed, release, exit_status,
          call, toml_files>>

\* no function is examined on its own
NoCall == [fn |-> "none"]

NoFunc == [file |-> 0, code |-> ""]

\* the threshold of the assert-count warning
MinAsserts == 30

\* display_name of a file of the directory
DisplayName(f) == "task" \o ToString(f) \o ".toml"

\* the path of the artifact of a file: release/<rel_dir>/<base name>.json
JsonPath(f) == "release/task" \o ToString(f) \o ".json"

\* the file the loop of run_tests is at
CurFile == files_to_process[file_idx]

CurData == toml_data_cache[CurFile]

\* "<text>" in error_msg, on the pieces of the message
Contains(error_msg, text) == \E j \in 1..Len(error_msg) : error_msg[j] = text

\* the test for the critical error without the "no entry point" text
IsCritical_no_solution_only(error_msg) == Contains(error_msg, NoSolutionText)

\* the test for the critical error without the "no solution" text
IsCritical_no_entry_only(error_msg) == Contains(error_msg, NoEntryPointText)

\* the test of the except handler of run_tests for the critical error
IsCritical(error_msg) ==
    Contains(error_msg, NoEntryPointText) \/ Contains(error_msg, NoSolutionText)

\* the line printed before the run is given up
CriticalText == "Critical error: 'solution' function not found in code"

\* the except handler of run_tests, for the exception e raised while loading
\* or activating the current file, after the output out
HandleErrorAfter(out, e) ==
    /\ has_errors' = TRUE
    /\ IF IsCritical(e)
       THEN /\ printed' = out \o <<[kind |-> "error", file |-> CurFile, msg |-> e],
                                    [kind |-> "critical", file |-> CurFile,
                                     msg |-> <<CriticalText>>]>>
            /\ exit_status' = "1"
            /\ pc' = "exited"
            /\ file_idx' = file_idx
       ELSE /\ printed' = Append(out, [kind |-> "error", file |-> CurFile, msg |-> e])
            /\ exit_status' = exit_status
            /\ pc' = "loop"
            /\ file_idx' = file_idx + 1

HandleError(e) == HandleErrorAfter(printed, e)

Init ==
    /\ skip_assert_count \in BOOLEAN
    /\ files_to_process \in {[j \in 1..n |-> j] : n \in 0..NumFiles}
    /\ file_idx = 1
    /\ pc = "loop"
    /\ toml_data_cache = <<>>
    /\ assert_idx = 0
    /\ solution_func = NoFunc
    /\ test_results = <<>>
    /\ results = <<>>
    /\ has_errors = FALSE
    /\ printed = <<>>
    /\ release = <<>>
    /\ exit_status = "running"
    /\ call = NoCall
    /\ toml_files = <<>>

RECURSIVE FirstError(_, _)
\* the first exception a sequence of checks raises, <<>> when none does
FirstError(errs, j) ==
    IF j > Len(errs) THEN <<>>
    ELSE IF errs[j] # <<>> THEN errs[j] ELSE FirstError(errs, j + 1)

\* validation of the signatures in load_toml_data, and the output_signature
\* check that opens check_assert_types
SignatureError(data) ==
    LET in == data.input_signature
        out == data.output_signature
        inErrs == IF in.form = "list"
                  THEN [j \in 1..Len(in.sigs) |->
                           validate_signature([type |-> in.sigs[j].type], "input_signature")]
                  ELSE IF in.form = "single"
                  THEN <<validate_signature([type |-> in.type], "input_signature")>>
                  ELSE <<>>
        outErr == IF out.form = "single"
                  THEN validate_signature([type |-> out.type], "output_signature")
                  ELSE <<>>
        missing == IF out.form = "absent" THEN <<"Missing output_signature">> ELSE <<>>
    IN FirstError(inErrs \o <<outErr, missing>>, 1)

\* load_toml_data up to the loop of check_assert_types: read the file into
\* the cache and validate its signatures
LoadToml ==
    /\ pc = "loop"
    /\ file_idx <= Len(files_to_process)
    /\ \E data \in Tasks :
          /\ toml_files' = (CurFile :> data) @@ toml_files
          /\ toml_data_cache' = (CurFile :> data) @@ toml_data_cache
          /\ LET e == SignatureError(data) IN
             IF e # <<>>
             THEN /\ HandleError(e)
                  /\ UNCHANGED assert_idx
             ELSE /\ pc' = "check_assert_types"
                  /\ assert_idx' = 1
                  /\ UNCHANGED <<file_idx, has_errors, printed, exit_status>>
    /\ UNCHANGED <<call, skip_assert_count, files_to_process, solution_func, test_results,
                   results, release>>

\* the checks of one argument against its descriptor: type, then bounds
ArgumentErrors(display_name, idx, sig, arg, i) ==
    LET path == <<"arguments[", ToString(i - 1), "]">>
        m == type_matches(sig, arg, path)
    IN <<IF ~m.ok
         THEN <<"[", display_name, "] Assert #", ToString(idx), ": argument ", ToString(i),
                " type mismatch: ">> \o m.err \o <<" (wanted ">> \o signature_to_str(sig)
                \o <<")">>
         ELSE <<>>,
         check_int_bounds(sig, arg, path)>>

\* the checks of the expected value without the integer bounds
ExpectedErrors_type_only(display_name, idx, sig, expected) ==
    LET m == type_matches(sig, expected, <<"expected">>) IN
    <<IF ~m.ok
      THEN <<"[", display_name, "] Assert #", ToString(idx),
             ": expected value type mismatch: ">> \o m.err \o <<" (wanted ">>
             \o signature_to_str(sig) \o <<")">>
      ELSE <<>>>>

\* the checks of the expected value against output_signature
ExpectedErrors(display_name, idx, sig, expected) ==
    LET m == type_matches(sig, expected, <<"expected">>) IN
    <<IF ~m.ok
      THEN <<"[", display_name, "] Assert #", ToString(idx),
             ": expected value type mismatch: ">> \o m.err \o <<" (wanted ">>
             \o signature_to_str(sig) \o <<")">>
      ELSE <<>>,
      check_int_bounds(sig, expected, <<"expected">>)>>

RECURSIVE ConcatAll(_, _)
\* the concatenation of the sequences ss[j], ss[j + 1], ..
ConcatAll(ss, j) == IF j > Len(ss) THEN <<>> ELSE ss[j] \o ConcatAll(ss, j + 1)

\* one iteration of the loop of check_assert_types without the comparison of
\* len(args) with len(input_sig): the zip stops at the shorter of the two
AssertError_zip_only(data, display_name, idx) ==
    LET a == data.asserts[idx]
        args == a.arguments
        in == data.input_signature
        n == Len(args)
        head == <<"[", display_name, "] Assert #", ToString(idx)>>
        argErrs ==
            CASE in.form = "absent" ->
                    IF n # 0
                    THEN <<head \o <<": has ", ToString(n),
                                     " argument(s) but no input_signature is defined">>>>
                    ELSE <<>>
              [] in.form = "list" ->
                    ConcatAll([i \in 1..Min(n, Len(in.sigs)) |->
                        ArgumentErrors(display_name, idx, in.sigs[i].type, args[i], i)], 1)
              [] OTHER ->
                    IF n # 1
                    THEN <<head \o <<": expected 1 argument per input_signature, got ",
                                     ToString(n)>>>>
                    ELSE ArgumentErrors(display_name, idx, in.type, args[1], 1)
    IN FirstError(argErrs
                  \o ExpectedErrors(display_name, idx, data.output_signature.type, a.expected),
                  1)

\* one iteration of the loop of check_assert_types, for assert number idx:
\* the exception it raises, <<>> when none
AssertError(data, display_name, idx) ==
    LET a == data.asserts[idx]
        args == a.arguments
        in == data.input_signature
        n == Len(args)
        head == <<"[", display_name, "] Assert #", ToString(idx)>>
        argErrs ==
            CASE in.form = "absent" ->
                    IF n # 0
                    THEN <<head \o <<": has ", ToString(n),
                                     " argument(s) but no input_signature is defined">>>>
                    ELSE <<>>
              [] in.form = "list" ->
                    IF n # Len(in.sigs)
                    THEN <<head \o <<": expected ", ToString(Len(in.sigs)),
                                     " argument(s) per input_signature, got ", ToString(n)>>>>
                    ELSE ConcatAll([i \in 1..n |->
                             ArgumentErrors(display_name, idx, in.sigs[i].type, args[i], i)], 1)
              [] OTHER ->
                    IF n # 1
                    THEN <<head \o <<": expected 1 argument per input_signature, got ",
                                     ToString(n)>>>>
                    ELSE ArgumentErrors(display_name, idx, in.type, args[1], 1)
    IN FirstError(argErrs
                  \o ExpectedErrors(display_name, idx, data.output_signature.type, a.expected),
                  1)

\* check_assert_types(data, display_name) as a whole: the exception it
\* raises, <<>> when it returns
check_assert_types(data, display_name) ==
    IF data.output_signature.form = "absent" THEN <<"Missing output_signature">>
    ELSE FirstError([idx \in 1..Len(data.asserts) |-> AssertError(data, display_name, idx)], 1)

\* the loop of check_assert_types ends after the first assert
AssertsChecked_after_first ==
    IF CurData.asserts = <<>> THEN TRUE ELSE assert_idx > 1

\* the loop of check_assert_types has gone through every assert
AssertsChecked == assert_idx > Len(CurData.asserts)

\* check_assert_types: one iteration of its loop over the asserts
CheckAssert ==
    /\ pc = "check_assert_types"
    /\ ~AssertsChecked
    /\ LET e == AssertError(CurData, DisplayName(CurFile), assert_idx) IN
       IF e # <<>>
       THEN /\ HandleError(e)
            /\ UNCHANGED assert_idx
       ELSE /\ assert_idx' = assert_idx + 1
            /\ UNCHANGED <<file_idx, pc, has_errors, printed, exit_status>>
    /\ UNCHANGED <<call, toml_files, skip_assert_count, files_to_process, toml_data_cache, solution_func,
                   test_results, results, release>>

\* data.get("solution", "")
SolutionCode(data) == IF data.solution = SolutionAbsent THEN "" ELSE data.solution

\* the end of load_toml_data with the warning for the count up to and
\* including 30
load_end_warns_at_threshold(skip, n, solution_code) ==
    [warning |-> ~skip /\ n <= MinAsserts,
     error |-> IF ~skip /\ n <= MinAsserts /\ n = 0 THEN <<"NO ASSERTS FOUND">>
               ELSE IF solution_code = "" THEN <<NoSolutionText>>
               ELSE <<>>]

\* the end of load_toml_data for a record of n asserts: whether the warning
\* of the assert count is printed, and the exception raised, <<>> when the
\* function returns
load_end(skip, n, solution_code) ==
    [warning |-> ~skip /\ n < MinAsserts,
     error |-> IF ~skip /\ n < MinAsserts /\ n = 0 THEN <<"NO ASSERTS FOUND">>
               ELSE IF solution_code = "" THEN <<NoSolutionText>>
               ELSE <<>>]

\* the rest of load_toml_data after check_assert_types: the assert-count
\* warning, "NO ASSERTS FOUND", "THERE IS NO SOLUTION"
FinishLoad ==
    /\ pc = "check_assert_types"
    /\ AssertsChecked
    /\ LET n == Len(CurData.asserts)
           end == load_end(skip_assert_count, n, SolutionCode(CurData))
           warning == [kind |-> "warning", file |-> CurFile,
                       msg |-> <<"WARNING: Task '", CurData.name, "' has only ", ToString(n),
                                 " asserts (less than 30)">>]
           out == IF end.warning THEN Append(printed, warning) ELSE printed
       IN
       IF end.error # <<>>
       THEN HandleErrorAfter(out, end.error)
       ELSE /\ pc' = "create_solution_function"
            /\ printed' = out
            /\ UNCHANGED <<file_idx, has_errors, exit_status>>
    /\ UNCHANGED <<call, toml_files, skip_assert_count, files_to_process, toml_data_cache, assert_idx,
                   solution_func, test_results, results, release>>

\* create_solution_function: the exception it raises, <<>> when it returns
\* the function
CreateError(code) ==
    LET x == Exec(code) IN
    CASE x.end = "SyntaxError" -> <<"SYNTAX ERROR: ">> \o x.msg
      [] x.end = "Exception" -> <<"Failed to create solution function: ">> \o x.msg
      [] x.end \in {"no solution", "not callable"} ->
            <<"Failed to create solution function: ", NoEntryPointText>>
      [] OTHER -> <<>>

\* create_solution_function(solution_code) in run_tests
CreateSolution ==
    /\ pc = "create_solution_function"
    /\ LET e == CreateError(SolutionCode(CurData)) IN
       IF e # <<>>
       THEN /\ HandleError(e)
            /\ UNCHANGED <<solution_func, test_results>>
       ELSE /\ solution_func' = [file |-> CurFile, code |-> SolutionCode(CurData)]
            /\ test_results' = <<>>
            /\ pc' = "run_cases"
            /\ UNCHANGED <<file_idx, has_errors, printed, exit_status>>
    /\ UNCHANGED <<call, toml_files, skip_assert_count, files_to_process, toml_data_cache, assert_idx,
                   results, release>>

\* the comparison of run_tests: of the decoded containers when actual and
\* expected both are texts that decode to one, else of the values as they are
ComparePassed(actual, expected) ==
    LET exp_obj == _try_json_container(expected)
        act_obj == _try_json_container(actual)
    IN IF exp_obj # PyNone /\ act_obj # PyNone
       THEN values_equal(act_obj, exp_obj)
       ELSE values_equal(actual, expected)

\* the body of the loop over test_cases without the check of the returned
\* value against output_signature
RunOne_without_type_check(code, output_sig, case) ==
    LET actual == Invoke(code, case.arguments)
        arguments == ArgumentsAfter(code, case.arguments)
        eq == IF IsRaise(actual) THEN actual ELSE ComparePassed(actual, case.expected)
    IN
    IF IsRaise(eq)
    THEN [passed |-> FALSE, actual |-> PyMsg(eq.m), expected |-> case.expected,
          arguments |-> arguments]
    ELSE [passed |-> eq.b, actual |-> actual, expected |-> case.expected,
          arguments |-> arguments]

\* the TestResult of one case: the body of the loop over test_cases
RunOne(code, output_sig, case) ==
    LET actual == Invoke(code, case.arguments)
        arguments == ArgumentsAfter(code, case.arguments)
        eq == IF IsRaise(actual) THEN actual ELSE ComparePassed(actual, case.expected)
        m == type_matches(output_sig.type, actual, <<"actual">>)
    IN
    IF IsRaise(actual)
    THEN [passed |-> FALSE, actual |-> PyMsg(actual.m), expected |-> case.expected,
          arguments |-> arguments]
    ELSE IF IsRaise(eq)
    THEN [passed |-> FALSE, actual |-> PyMsg(eq.m), expected |-> case.expected,
          arguments |-> arguments]
    ELSE IF output_sig.form # "absent" /\ ~m.ok
    THEN [passed |-> FALSE,
          actual |-> PyMsg(<<"TYPE ERROR: ">> \o m.err \o <<" ; value=">>
                           \o format_value(actual)),
          expected |-> case.expected, arguments |-> arguments]
    ELSE [passed |-> eq.b, actual |-> actual, expected |-> case.expected,
          arguments |-> arguments]

\* the loop over test_cases ends with the first case whose call raises
CasesDone_or_fault ==
    \/ Len(test_results) = Len(CurData.asserts)
    \/ /\ test_results # <<>>
       /\ IsRaise(Invoke(solution_func.code, CurData.asserts[Len(test_results)].arguments))

\* the loop over test_cases in run_tests has gone through every case
CasesDone == Len(test_results) = Len(CurData.asserts)

\* one iteration of the loop over test_cases in run_tests
RunCase ==
    /\ pc = "run_cases"
    /\ ~CasesDone
    /\ LET k == Len(test_results) + 1
           case == CurData.asserts[k]
       IN
       /\ test_results' = Append(test_results,
              RunOne(solution_func.code, CurData.output_signature, case))
       /\ toml_data_cache' =
              [toml_data_cache EXCEPT ![CurFile].asserts[k].arguments =
                   ArgumentsAfter(solution_func.code, case.arguments)]
    /\ UNCHANGED <<call, toml_files, skip_assert_count, files_to_process, file_idx, pc,
                   assert_idx, solution_func, results, has_errors, printed, release,
                   exit_status>>

\* results[display_name] = (test_results, task_name), and on to the next file
StoreResults ==
    /\ pc = "run_cases"
    /\ CasesDone
    /\ results' = (CurFile :> [test_results |-> test_results, task_name |-> CurData.name])
                      @@ results
    /\ file_idx' = file_idx + 1
    /\ pc' = "loop"
    /\ UNCHANGED <<call, toml_files, skip_assert_count, files_to_process, toml_data_cache, assert_idx,
                   solution_func, test_results, has_errors, printed, release, exit_status>>

\* the end of run_tests without the exit on has_errors
EndLoop_without_exit ==
    /\ pc = "loop"
    /\ file_idx > Len(files_to_process)
    /\ pc' = "print_results"
    /\ UNCHANGED <<call, toml_files, skip_assert_count, files_to_process, file_idx, toml_data_cache,
                   assert_idx, solution_func, test_results, results, has_errors, printed,
                   release, exit_status>>

\* the end of run_tests: exit on has_errors, else return results to main
EndLoop ==
    /\ pc = "loop"
    /\ file_idx > Len(files_to_process)
    /\ IF has_errors
       THEN /\ exit_status' = "1"
            /\ pc' = "exited"
       ELSE /\ exit_status' = exit_status
            /\ pc' = "print_results"
    /\ UNCHANGED <<call, toml_files, skip_assert_count, files_to_process, file_idx, toml_data_cache,
                   assert_idx, solution_func, test_results, results, has_errors, printed,
                   release>>

RECURSIVE SumOver(_, _)
\* the sum of f over the files in fs
SumOver(f, fs) ==
    IF fs = {} THEN 0
    ELSE LET x == CHOOSE y \in fs : TRUE IN f[x] + SumOver(f, fs \ {x})

\* sum(1 for r in test_results if r.passed)
PassedCount(rs) == Cardinality({j \in 1..Len(rs) : rs[j].passed})

\* total_tests of print_results
TotalTests(res) == SumOver([f \in DOMAIN res |-> Len(res[f].test_results)], DOMAIN res)

\* total_passed of print_results
TotalPassed(res) ==
    SumOver([f \in DOMAIN res |-> PassedCount(res[f].test_results)], DOMAIN res)

\* the JSON data create_release_folder writes for a cached record
JsonData(data) == data

\* create_release_folder: one artifact per file of results that is cached
create_release_folder(res) ==
    [path \in {JsonPath(f) : f \in DOMAIN res \cap DOMAIN toml_data_cache} |->
        LET f == CHOOSE g \in DOMAIN res : JsonPath(g) = path IN JsonData(toml_data_cache[f])]

\* the sorted per-file summaries print_results prints
Summaries(res) ==
    LET n == Cardinality(DOMAIN res)
        order == CHOOSE o \in [1..n -> DOMAIN res] :
                     \A j, k \in 1..n : j < k => o[j] < o[k]
    IN [j \in 1..n |-> [kind |-> "summary", file |-> order[j],
                        msg |-> <<ToString(PassedCount(res[order[j]].test_results)), "/",
                                  ToString(Len(res[order[j]].test_results))>>]]

\* the files of results in the order of sorted(results.items())
SortedFiles(res) ==
    LET n == Cardinality(DOMAIN res) IN
    CHOOSE o \in [1..n -> DOMAIN res] : \A j, k \in 1..n : j < k => o[j] < o[k]

\* a part of print_results: what it prints, and whether the function goes on
\* after it, has returned, or the process has ended
Part(out, ended) == [out |-> out, ended |-> ended]

\* part a, followed by part b when a goes on
Then(a, b) == IF a.ended # "running" THEN a ELSE Part(a.out \o b.out, b.ended)

RECURSIVE InTurn(_, _)
\* the parts from the j-th on, one after the other
InTurn(parts, j) ==
    IF j > Len(parts) THEN Part(<<>>, "running") ELSE Then(parts[j], InTurn(parts, j + 1))

\* what print_results prints for test number i of the file f: the test, its
\* verdict and, for a failed test, what find_difference gives
TestEntry(f, i, r) ==
    [kind |-> "test", file |-> f,
     msg |-> <<"Test #", ToString(i), IF r.passed THEN "PASSED" ELSE "TEST FAILED">>,
     differences |-> IF r.passed THEN Differences(<<>>)
                     ELSE find_difference(r.actual, r.expected, <<>>)]

\* the entries of all tests of all files
TestEntries(res) ==
    [f \in DOMAIN res |->
        [i \in 1..Len(res[f].test_results) |-> TestEntry(f, i, res[f].test_results[i])]]

\* the printing of the tests of one file that are numbered in shown: it
\* ends the process at the first test on which find_difference raises
TestOutput(es, shown) ==
    LET raising == {i \in shown : IsRaise(es[i].differences)}
        upto == IF raising = {} THEN Len(es)
                ELSE (CHOOSE i \in raising : \A k \in raising : i <= k) - 1
        idx == SelectSeq([i \in 1..upto |-> i], LAMBDA i : i \in shown)
    IN Part([j \in 1..Len(idx) |-> es[idx[j]]],
            IF raising = {} THEN "running" ELSE "exited")

\* the loop over sorted(results.items()): the summary of each file, and in
\* verbose mode every test of it
PerFile(res, entries, verbose) ==
    LET fs == SortedFiles(res)
        sums == Summaries(res)
    IN InTurn([k \in 1..(2 * Len(fs)) |->
                  IF k % 2 = 1 THEN Part(<<sums[(k + 1) \div 2]>>, "running")
                  ELSE IF verbose
                  THEN TestOutput(entries[fs[k \div 2]], 1..Len(entries[fs[k \div 2]]))
                  ELSE Part(<<>>, "running")], 1)

\* the files failed_test_details holds, grouped by task name in the order
\* the names were met, and within a task in the order of the loop
FailedFiles(res) ==
    LET fs == SelectSeq(SortedFiles(res),
                        LAMBDA f : PassedCount(res[f].test_results) < Len(res[f].test_results))
        name(k) == res[fs[k]].task_name
    IN ConcatAll([k \in 1..Len(fs) |->
                     IF \E m \in 1..(k - 1) : name(m) = name(k) THEN <<>>
                     ELSE SelectSeq(fs, LAMBDA f : res[f].task_name = name(k))], 1)

\* the detailed failed tests of non-verbose mode
FailedDetails(res, entries) ==
    LET fs == FailedFiles(res) IN
    InTurn([k \in 1..Len(fs) |->
               TestOutput(entries[fs[k]],
                          {i \in 1..Len(entries[fs[k]]) : ~res[fs[k]].test_results[i].passed})],
           1)

\* the line create_release_folder prints when it is done
Created(res) ==
    [kind |-> "created", file |-> 0,
     msg |-> <<"Created release folder with ", ToString(Cardinality(DOMAIN res)),
               " JSON task files">>]

\* the first overall block without the return after create_release_folder
Overall_without_return(res, details, returns) ==
    IF TotalPassed(res) = TotalTests(res)
    THEN Part(<<Created(res)>>, "running")
    ELSE Then(details, Part(<<>>, "exited"))

\* an overall block of print_results, entered with total_tests > 0: the
\* release when every test passed, and after it the return (first block) or
\* nothing (the later blocks); else the details of the failed tests and
\* sys.exit(1)
Overall(res, details, returns) ==
    IF TotalPassed(res) = TotalTests(res)
    THEN Part(<<Created(res)>>, IF returns THEN "returned" ELSE "running")
    ELSE Then(details, Part(<<>>, "exited"))

\* the blocks of print_results one after the other: the per-file loop and
\* the overall block, and the repeated ones below them; per is what the loop
\* prints, details the failed tests the overall block prints
Blocks(res, per, details) ==
    InTurn([k \in 1..6 |->
               CASE k \in {1, 3} -> per
                 [] TotalTests(res) = 0 -> Part(<<>>, "running")
                 [] OTHER -> Overall(res, details, k = 2)], 1)

\* print_results with the entries of the tests at hand
Report(res, verbose, entries) ==
    Blocks(res, PerFile(res, entries, verbose),
           IF verbose THEN Part(<<>>, "running") ELSE FailedDetails(res, entries))

\* print_results(results, verbose)
print_results(res, verbose) == Report(res, verbose, TestEntries(res))

\* the end of the process after print_results gave r: the output, the
\* release, the status
EndWith(r) ==
    /\ printed' = printed \o r.out
    /\ release' = IF \E j \in 1..Len(r.out) : r.out[j].kind = "created"
                  THEN create_release_folder(results)
                  ELSE release
    /\ exit_status' = IF r.ended = "exited" THEN "1" ELSE "0"

\* print_results(results, verbose=args.verbose), and the end of main after it
PrintResults ==
    /\ pc = "print_results"
    /\ \E verbose \in BOOLEAN : EndWith(print_results(results, verbose))
    /\ pc' = "exited"
    /\ UNCHANGED <<call, toml_files, skip_assert_count, files_to_process, file_idx, toml_data_cache,
                   assert_idx, solution_func, test_results, results, has_errors>>

Next ==
    \/ LoadToml
    \/ CheckAssert
    \/ FinishLoad
    \/ CreateSolution
    \/ RunCase
    \/ StoreResults
    \/ EndLoop
    \/ PrintResults

Spec == Init /\ [][Next]_vars

----------------------------------------------------------------------------
(* Properties of the run *)

\* the files of the directory
Files == {files_to_process[k] : k \in 1..Len(files_to_process)}

\* every TestResult of the list passed
AllPassed(rs) == \A j \in 1..Len(rs) : rs[j].passed

\* something of this kind was printed
Printed(kind) == \E j \in 1..Len(printed) : printed[j].kind = kind

\* something of this kind was printed for the file f
PrintedFor(kind, f) ==
    \E j \in 1..Len(printed) : printed[j].kind = kind /\ printed[j].file = f

\* the signatures and every assert of the record pass the load-time validation
PassesValidation(data, f) ==
    /\ SignatureError(data) = <<>>
    /\ \A idx \in 1..Len(data.asserts) : AssertError(data, DisplayName(f), idx) = <<>>

\* the load of the record gets as far as the check of the implementation text
ReachesSolutionCheck(data, f) ==
    /\ PassesValidation(data, f)
    /\ ~(~skip_assert_count /\ data.asserts = <<>>)

\* the run is still loading the k-th file
Loading(k) ==
    /\ k = file_idx
    /\ pc \in {"check_assert_types", "create_solution_function"}

\* the run ended at the k-th file although files remain after it
StoppedBeforeLast(k) ==
    /\ pc = "exited"
    /\ file_idx = k
    /\ k < Len(files_to_process)

\* the run stopped at the k-th file: status 1, no later file touched, nothing
\* reported, nothing emitted
StoppedAt(k) ==
    /\ pc = "exited"
    /\ exit_status = "1"
    /\ file_idx = k
    /\ DOMAIN toml_data_cache = {files_to_process[i] : i \in 1..k}
    /\ DOMAIN results \subseteq {files_to_process[i] : i \in 1..(k - 1)}
    /\ solution_func.file # files_to_process[k]
    /\ PrintedFor("critical", files_to_process[k])
    /\ ~Printed("summary")
    /\ DOMAIN release = {}

\* C1: artifacts are written only in a run in which no file had a load-time
\* error and every assertion of every file passed; in every other run the
\* release folder stays empty.
C1_ReleaseOnlyAfterFullPass ==
    DOMAIN release # {} =>
        /\ ~has_errors
        /\ ~Printed("error")
        /\ DOMAIN results = Files
        /\ \A f \in DOMAIN results : AllPassed(results[f].test_results)

\* C1 witness: two files were processed and the release was written
C1_Witness ==
    /\ Len(files_to_process) = 2
    /\ DOMAIN release = {JsonPath(1), JsonPath(2)}
    /\ \A f \in DOMAIN results : results[f].test_results # <<>>

\* C2: the run ends with status 0 exactly when no file had a load-time error
\* and every assertion of every file passed; with status 0 every file has its
\* artifact; otherwise the status is 1.
C2_ExitZeroIffAllPassedAndEmitted ==
    exit_status # "running" =>
        /\ exit_status \in {"0", "1"}
        /\ (exit_status = "0") <=>
               /\ ~Printed("error")
               /\ DOMAIN results = Files
               /\ \A f \in DOMAIN results : AllPassed(results[f].test_results)
        /\ exit_status = "0" => \A f \in Files : JsonPath(f) \in DOMAIN release

\* C3: a returned value that does not match output_signature gives a
\* TestResult that is not passed and whose actual is the type-error
\* explanation.
C3_MismatchedReturnIsTypeError ==
    \A f \in DOMAIN results :
        LET d == toml_data_cache[f]
            rs == results[f].test_results
        IN \A j \in 1..Len(rs) :
               LET raw == Invoke(SolutionCode(d), d.asserts[j].arguments) IN
               (~IsRaise(raw) /\ ~type_matches(d.output_signature.type, raw, <<"actual">>).ok)
                   => /\ ~rs[j].passed
                      /\ rs[j].actual.t = "msg"
                      /\ rs[j].actual.m[1] = "TYPE ERROR: "

\* the results rs of the record d, as far as they go, are one per assert and
\* in the order of the asserts, and a call that raised is a failed result
\* whose actual is the message of the exception
OnePerAssert(d, rs) ==
    /\ Len(rs) <= Len(d.asserts)
    /\ \A j \in 1..Len(rs) :
           LET raw == Invoke(SolutionCode(d), d.asserts[j].arguments) IN
           /\ rs[j].arguments = d.asserts[j].arguments
           /\ rs[j].expected = d.asserts[j].expected
           /\ IsRaise(raw) => (~rs[j].passed /\ rs[j].actual = PyMsg(raw.m))

\* C4: an exception raised by the call on one assertion becomes a failed
\* TestResult with the message as actual, the next assertions are still run,
\* and the stored result list of a file holds exactly one TestResult per
\* assertion, in assertion order.
C4_FaultIsolatedPerAssertion ==
    /\ \A f \in DOMAIN results :
           /\ OnePerAssert(toml_data_cache[f], results[f].test_results)
           /\ Len(results[f].test_results) = Len(toml_data_cache[f].asserts)
    /\ pc = "run_cases" => OnePerAssert(CurData, test_results)

\* C4 witness: the call on the first assertion raised, the call on the second
\* returned and passed, and both results are stored
C4_Witness ==
    \E f \in DOMAIN results :
        LET rs == results[f].test_results IN
        /\ Len(rs) = 2
        /\ IsRaise(Invoke(SolutionCode(toml_data_cache[f]),
                          toml_data_cache[f].asserts[1].arguments))
        /\ ~rs[1].passed
        /\ rs[2].passed

\* C5: a task with zero assertions never loads, whatever skip_assert_count is.
C5_ZeroAssertsNeverLoad ==
    /\ pc \in {"create_solution_function", "run_cases"} => CurData.asserts # <<>>
    /\ \A f \in DOMAIN results : toml_data_cache[f].asserts # <<>>

\* the implementation text of the record defines no callable named solution
NoEntryPoint(data) == Exec(SolutionCode(data)).end \in {"no solution", "not callable"}

FailsWithOrdinaryError(data, f) ==
    \/ ~PassesValidation(data, f) /\ data.output_signature.form # "absent"
    \/ /\ ReachesSolutionCheck(data, f)
       /\ Exec(SolutionCode(data)).end = "SyntaxError"

\* C7: a schema, type-mismatch, integer-range, arity or syntax error abandons
\* only the file it is raised for: the run does not end at that file while
\* files remain after it, and it ends with status 1.
C7_OrdinaryLoadErrorAbandonsOnlyThatFile ==
    \A k \in 1..Len(files_to_process) :
        LET f == files_to_process[k] IN
        (f \in DOMAIN toml_data_cache /\ FailsWithOrdinaryError(toml_data_cache[f], f))
            => /\ ~StoppedBeforeLast(k)
               /\ pc = "exited" => exit_status = "1"

Activated(f) ==
    \/ solution_func.file = f
    \/ f \in DOMAIN results
    \/ \E j \in 1..Len(printed) :
           /\ printed[j].kind = "error"
           /\ printed[j].file = f
           /\ printed[j].msg[1] \in {"SYNTAX ERROR: ", "Failed to create solution function: "}

\* C9: the validation of all asserts of a file is over before its
\* implementation text is activated or called, and a file with an assert that
\* fails validation is never activated.
C9_ValidationBeforeActivation ==
    /\ pc \in {"create_solution_function", "run_cases"} =>
           assert_idx = Len(CurData.asserts) + 1
    /\ \A f \in DOMAIN toml_data_cache :
           Activated(f) =>
               \A idx \in 1..Len(toml_data_cache[f].asserts) :
                   AssertError(toml_data_cache[f], DisplayName(f), idx) = <<>>

\* C9 witness: both asserts of a file were validated, the text was activated
\* and the first assertion was run
C9_Witness ==
    /\ pc = "run_cases"
    /\ Len(CurData.asserts) = 2
    /\ assert_idx = 3
    /\ solution_func.file = CurFile
    /\ Len(test_results) = 1

----------------------------------------------------------------------------
(* check_int_bounds on its own *)

\* the run variables while a single function is examined
NoRun ==
    /\ skip_assert_count = FALSE
    /\ files_to_process = <<>>
    /\ file_idx = 1
    /\ pc = "no run"
    /\ toml_data_cache = <<>>
    /\ assert_idx = 0
    /\ solution_func = NoFunc
    /\ test_results = <<>>
    /\ results = <<>>
    /\ has_errors = FALSE
    /\ printed = <<>>
    /\ release = <<>>
    /\ exit_status = "running"
    /\ toml_files = <<>>

runVars == <<skip_assert_count, files_to_process, file_idx, pc, toml_data_cache, assert_idx,
             solution_func, test_results, results, has_errors, printed, release,
             exit_status, toml_files>>

\* integers at and around the two ends of the range, and 0
EdgeInts ==
    {PyBigInt(21474, 83646), PyBigInt(21474, 83647), PyBigInt(21474, 83648),
     PyBigInt(-21475, 16352), PyBigInt(-21475, 16351), PyInt(0)}

\* the lists over S of length at most n
ListsOver(S, n) == UNION {[1..k -> S] : k \in 0..n}

\* the values check_int_bounds is given
BoundsValues ==
    EdgeInts
    \cup {PyBool(TRUE), PyStr("5"), PyStr("[2147483646]"), PyStr("[2147483647]")}
    \cup {PyList(l) : l \in ListsOver(EdgeInts \ {PyBigInt(21474, 83648), PyInt(0)}, MaxListLen)}
    \cup {PyDict(<<<<PyStr("a"), v>>>>) : v \in EdgeInts}

BoundsSigs == {<<"integer">>, <<"array", "integer">>, <<"hash", "integer">>, <<"string">>}

InitBounds ==
    /\ NoRun
    /\ call \in {[fn |-> "check_int_bounds", sig |-> sg, value |-> v, path |-> <<"value">>,
                   done |-> FALSE, result |-> <<>>] : sg \in BoundsSigs, v \in BoundsValues}

\* the call check_int_bounds(sig, value, path)
CallCheckIntBounds ==
    /\ call.fn = "check_int_bounds"
    /\ ~call.done
    /\ call' = [call EXCEPT !.done = TRUE,
                            !.result = check_int_bounds(call.sig, call.value, call.path)]
    /\ UNCHANGED runVars

NextBounds == CallCheckIntBounds

SpecBounds == InitBounds /\ [][NextBounds]_vars

\* v lies in -2147483648 .. 2147483646
InInt32Range(v) ==
    /\ v.hi > -21475 \/ (v.hi = -21475 /\ v.lo >= 16352)
    /\ v.hi < 21474 \/ (v.hi = 21474 /\ v.lo <= 83646)

\* the error check_int_bounds is to raise for the integer v at the leaf path
RangeErrorNames(err, path, v) ==
    /\ Len(err) > Len(path) + 1
    /\ SubSeq(err, 1, Len(path)) = path
    /\ err[Len(path) + 1] = ": integer "
    /\ err[Len(path) + 2] = IntText(v)

\* C10: check_int_bounds accepts the integer v at an integer-typed leaf if and
\* only if -2147483648 <= v < 2147483647 (2147483646 and -2147483648 pass,
\* 2147483647 and -2147483649 do not), and the error it raises for a rejected
\* leaf names the path of the leaf and its value; in a list checked against
\* array<integer> the leaf named is the first one out of range.
C10_BoundsAcceptExactlyTheRange ==
    (call.fn = "check_int_bounds" /\ call.done) =>
        LET v == call.value
            r == call.result
        IN
        /\ (call.sig = <<"integer">> /\ v.t = "int") =>
               /\ (r = <<>>) <=> InInt32Range(v)
               /\ r # <<>> => RangeErrorNames(r, call.path, v)
               /\ v = PyBigInt(21474, 83646) => r = <<>>
               /\ v = PyBigInt(-21475, 16352) => r = <<>>
               /\ v = PyBigInt(21474, 83647) =>
                      (r # <<>> /\ r[Len(call.path) + 2] = "2147483647")
               /\ v = PyBigInt(-21475, 16351) =>
                      (r # <<>> /\ r[Len(call.path) + 2] = "-2147483649")
        /\ (call.sig = <<"array", "integer">> /\ v.t = "list") =>
               LET bad == {j \in 1..Len(v.l) : ~InInt32Range(v.l[j])} IN
               /\ (r = <<>>) <=> (bad = {})
               /\ bad # {} =>
                      LET j == CHOOSE k \in bad : \A k2 \in bad : k <= k2 IN
                      RangeErrorNames(r, call.path \o <<"[", ToString(j - 1), "]">>, v.l[j])
        /\ (call.sig = <<"hash", "integer">> /\ v.t = "dict") =>
               /\ (r = <<>>) <=> InInt32Range(v.d[1][2])
               /\ r # <<>> => RangeErrorNames(r, call.path \o <<".", "a">>, v.d[1][2])

\* C10 witness: 2147483647 was given at an integer leaf and was rejected
C10_Witness ==
    /\ call.fn = "check_int_bounds"
    /\ call.done
    /\ call.sig = <<"integer">>
    /\ call.value = PyBigInt(21474, 83647)
    /\ call.result # <<>>

----------------------------------------------------------------------------
(* Properties of the run: signatures, the cache and the release *)

\* the signatures of the record with their roles, in the order load_toml_data
\* validates them
SignatureRoles(data) ==
    LET in == data.input_signature
        out == data.output_signature
    IN (IF in.form = "list"
        THEN [j \in 1..Len(in.sigs) |-> [role |-> "input_signature", type |-> in.sigs[j].type]]
        ELSE IF in.form = "single"
        THEN <<[role |-> "input_signature", type |-> in.type]>>
        ELSE <<>>)
       \o (IF out.form = "single"
           THEN <<[role |-> "output_signature", type |-> out.type]>>
           ELSE <<>>)

IsUnlisted(x) == [type |-> x.type] \notin ALLOWED_SIGNATURES

\* the signatures of the record that are not entries of ALLOWED_SIGNATURES
Unlisted(data) == SelectSeq(SignatureRoles(data), IsUnlisted)

\* the errors printed for the file f, in order
ErrorsFor(f) ==
    LET IsErrorFor(x) == x.kind = "error" /\ x.file = f IN SelectSeq(printed, IsErrorFor)

C19_CacheNeverChanges ==
    /\ toml_data_cache = toml_files
    /\ \A path \in DOMAIN release : \E f \in DOMAIN toml_files : release[path] = toml_files[f]

\* C20: on a fully passing run there is exactly one artifact per processed
\* file, at the path of the file under release/ with the extension .json, it
\* holds the fields of the loaded record with unchanged values, and distinct
\* files have distinct paths.
C20_OneFaithfulArtifactPerFile ==
    /\ (pc = "exited" /\ exit_status = "0" /\ TotalTests(results) > 0) => DOMAIN release # {}
    /\ DOMAIN release # {} =>
           /\ DOMAIN release = {JsonPath(f) : f \in Files}
           /\ \A f \in Files : release[JsonPath(f)] = toml_files[f]
           /\ \A f, g \in Files : f # g => JsonPath(f) # JsonPath(g)

----------------------------------------------------------------------------
(* type_matches on its own *)

\* the value with every text that decodes to a list or a dict replaced by
\* what it decodes to, at every level
RECURSIVE Decoded(_)
Decoded(v) ==
    LET c == IF v.t = "str" /\ JsonLoads(v.s) # PyNone THEN JsonLoads(v.s) ELSE v IN
    CASE c.t = "list" -> PyList([j \in 1..Len(c.l) |-> Decoded(c.l[j])])
      [] c.t = "dict" -> PyDict([j \in 1..Len(c.d) |-> <<c.d[j][1], Decoded(c.d[j][2])>>])
      [] OTHER -> c

\* values without a container
MatchLeaves ==
    {PyBool(TRUE), PyBool(FALSE), PyInt(0), PyInt(1), PyInt(5), PyFloat(10), PyFloat(3),
     PyStr("a"), PyStr("5"), PyStr("true"), PyNone}

\* texts that decode to a list or a dict
JsonTexts ==
    {PyStr("[1,2,3]"), PyStr("[1,2]"), PyStr("[[1,2]]"), PyStr("[\"[1,2]\"]"),
     PyStr("[true]"), PyStr("{\"a\": 5}")}

\* the values type_matches is given
MatchValues ==
    MatchLeaves
    \cup JsonTexts
    \cup {PyList(l) : l \in ListsOver({PyInt(1), PyBool(TRUE), PyFloat(2), PyStr("[1,2]")},
                                      MaxListLen)}
    \cup {PyList(<<PyList(<<PyInt(1)>>)>>), PyList(<<PyStr("[true]"), PyStr("[1,2]")>>),
          PyList(<<PyInt(1), PyInt(2), PyStr("3")>>),
          PyList(<<PyList(<<PyInt(1), PyStr("3")>>)>>)}
    \cup {PyDict(<<<<PyStr("a"), v>>>>) : v \in {PyInt(5), PyBool(TRUE), PyStr("[1,2,3]")}}

MatchSigs ==
    {<<p>> : p \in Primitives}
    \cup {<<"array", "integer">>, <<"array", "boolean">>, <<"hash", "integer">>,
          <<"array", "array", "integer">>, <<"hash", "array", "integer">>}

InitMatch ==
    /\ NoRun
    /\ call \in {[fn |-> "type_matches", sig |-> sg, value |-> v, path |-> <<"value">>,
                   done |-> FALSE, result |-> MatchOk] : sg \in MatchSigs, v \in MatchValues}

\* the call type_matches(sig, value, path)
CallTypeMatches ==
    /\ call.fn = "type_matches"
    /\ ~call.done
    /\ call' = [call EXCEPT !.done = TRUE,
                            !.result = type_matches(call.sig, call.value, call.path)]
    /\ UNCHANGED runVars

NextMatch == CallTypeMatches

SpecMatch == InitMatch /\ [][NextMatch]_vars

\* C14: boolean is matched by booleans only, integer by ints that are not
\* booleans only, float by floats only; so an int matches neither boolean nor
\* float and a boolean does not match integer.
C14_PrimitivesAreStrict ==
    (call.fn = "type_matches" /\ call.done) =>
        LET v == call.value
            ok == call.result.ok
        IN
        /\ call.sig = <<"boolean">> => (ok <=> v.t = "bool")
        /\ call.sig = <<"integer">> => (ok <=> v.t = "int")
        /\ call.sig = <<"float">> => (ok <=> v.t = "float")
        /\ ~ok => call.result.err # <<>>

\* C14 witness: True was matched against integer and rejected
C14_Witness ==
    /\ call.fn = "type_matches"
    /\ call.done
    /\ call.sig = <<"integer">>
    /\ call.value = PyBool(TRUE)
    /\ ~call.result.ok

\* C15: for a text that decodes to a list or a dict, type_matches gives what
\* it gives for the decoded value, and so at every level: the verdict on a
\* value is the verdict on the value with all such texts decoded; "[1,2,3]"
\* matches array<integer>.
C15_JsonTextMatchesAsItsValue ==
    (call.fn = "type_matches" /\ call.done) =>
        LET v == call.value IN
        /\ (v.t = "str" /\ JsonLoads(v.s) # PyNone) =>
               call.result = type_matches(call.sig, JsonLoads(v.s), call.path)
        /\ call.result.ok = type_matches(call.sig, Decoded(v), call.path).ok
        /\ (v = PyStr("[1,2,3]") /\ call.sig = <<"array", "integer">>) => call.result.ok

\* C15 witness: a list that holds the text "[1,2]" was matched against
\* array<array<integer>> and accepted
C15_Witness ==
    /\ call.fn = "type_matches"
    /\ call.done
    /\ call.sig = <<"array", "array", "integer">>
    /\ call.value = PyList(<<PyStr("[1,2]")>>)
    /\ call.result.ok

\* the texts that stand between the path and the rest of an error of
\* type_matches
ErrorKinds ==
    {" expected string, got ", " expected boolean, got ", " expected integer, got ",
     " expected float, got ", " expected array/list, got ", " expected hash/dict, got ",
     " has unknown signature: "}

\* the path an error of type_matches begins with
ErrPath(err) ==
    LET k == CHOOSE i \in 1..Len(err) :
                 err[i] \in ErrorKinds /\ \A j \in 1..(i - 1) : err[j] \notin ErrorKinds
    IN SubSeq(err, 1, k - 1)

\* the indices (1-based) of the elements of a list that do not match T
FailingElements(T, items, path) ==
    {i \in 1..Len(items) :
        ~type_matches(T, items[i], path \o <<"[", ToString(i - 1), "]">>).ok}

\* C26 as stated: a list fails to match array<T> exactly when some element
\* fails to match T, and the path of the error is the given path with the
\* index of the first failing element appended.
C26_ArrayFailsAtFirstElement ==
    (/\ call.fn = "type_matches"
     /\ call.done
     /\ Head(call.sig) = "array"
     /\ call.value.t = "list") =>
        LET bad == FailingElements(Tail(call.sig), call.value.l, call.path) IN
        /\ ~call.result.ok <=> bad # {}
        /\ bad # {} =>
               LET first == CHOOSE i \in bad : \A k \in bad : i <= k IN
               ErrPath(call.result.err) = call.path \o <<"[", ToString(first - 1), "]">>

\* C26, amended: a list fails to match array<T> exactly when some element
\* fails to match T, and the path of the error begins with the given path
\* with the index of the first failing element appended; it is that path
\* when T is a primitive, and a longer one when the element fails inside;
\* [1, 2, "3"] against array<integer> fails at value[2].
C26_ArrayFailsAtOrBelowFirstElement ==
    (/\ call.fn = "type_matches"
     /\ call.done
     /\ Head(call.sig) = "array"
     /\ call.value.t = "list") =>
        LET T == Tail(call.sig)
            bad == FailingElements(T, call.value.l, call.path)
            p == ErrPath(call.result.err)
        IN
        /\ ~call.result.ok <=> bad # {}
        /\ bad # {} =>
               LET first == CHOOSE i \in bad : \A k \in bad : i <= k
                   element == call.path \o <<"[", ToString(first - 1), "]">>
               IN
               /\ Len(p) >= Len(element)
               /\ SubSeq(p, 1, Len(element)) = element
               /\ Head(T) \in Primitives => p = element
        /\ (/\ call.value = PyList(<<PyInt(1), PyInt(2), PyStr("3")>>)
            /\ call.sig = <<"array", "integer">>) =>
               /\ ~call.result.ok
               /\ p = <<"value", "[", "2", "]">>

\* C26 witness: [1, 2, "3"] was matched against array<integer> and rejected
C26_Witness ==
    /\ call.fn = "type_matches"
    /\ call.done
    /\ call.sig = <<"array", "integer">>
    /\ call.value = PyList(<<PyInt(1), PyInt(2), PyStr("3")>>)
    /\ ~call.result.ok

\* C27: the text is replaced before the checks of the primitives too: a text
\* that decodes to a list or a dict is judged as the list or the dict and so
\* does not match string, and a text that does not ("5", "true") stays a
\* str: it matches string and matches neither integer nor boolean.
C27_SubstitutionBeforePrimitiveChecks ==
    (/\ call.fn = "type_matches"
     /\ call.done
     /\ call.value.t = "str"
     /\ Head(call.sig) \in Primitives) =>
        LET j == JsonLoads(call.value.s) IN
        IF j # PyNone
        THEN /\ call.result = type_matches(call.sig, j, call.path)
             /\ call.sig = <<"string">> =>
                    /\ ~call.result.ok
                    /\ call.result.err = call.path \o <<" expected string, got ", TypeName(j)>>
        ELSE /\ call.result.ok <=> call.sig = <<"string">>
             /\ ~call.result.ok => call.result.err[Len(call.result.err)] = "str"

\* C27 witness: the text "true" was matched against boolean and rejected
\* as a str
C27_Witness ==
    /\ call.fn = "type_matches"
    /\ call.done
    /\ call.sig = <<"boolean">>
    /\ call.value = PyStr("true")
    /\ call.result = MatchFail(<<"value", " expected boolean, got ", "str">>)

----------------------------------------------------------------------------
(* values_equal and the comparison of run_tests on their own *)

\* strings, ints and booleans
EqualLeaves ==
    {PyStr("a"), PyStr("A"), PyStr("x"), PyStr("X"), PyStr("5"), PyStr("007"), PyStr("7"),
     PyInt(1), PyInt(5), PyBool(TRUE), PyBool(FALSE)}

\* dicts of one or two items with the keys "A" and "a"
EqualDicts ==
    LET keys == {PyStr("A"), PyStr("a")}
        vals == {PyInt(1), PyInt(2), PyStr("X"), PyStr("x")}
    IN {PyDict(<<<<k, v>>>>) : k \in keys, v \in vals}
       \cup UNION {{PyDict(<<<<k1, v1>>, <<k2, v2>>>>) :
                        k2 \in keys \ {k1}, v1 \in vals, v2 \in vals} : k1 \in keys}

\* texts that decode to a list, and lists that hold such a text
EqualJson ==
    {PyStr("[1,2]"), PyStr("[1, 2]"), PyStr("[[1,2]]"), PyStr("[\"[1,2]\"]"),
     PyList(<<PyInt(1), PyInt(2)>>), PyList(<<PyStr("[1,2]")>>),
     PyList(<<PyList(<<PyInt(1), PyInt(2)>>)>>)}

\* the values that are compared
EqualValues ==
    EqualLeaves
    \cup EqualDicts
    \cup EqualJson
    \cup {PyList(l) : l \in ListsOver({PyStr("a"), PyStr("A"), PyInt(1), PyBool(TRUE)},
                                      MaxListLen)}
    \cup {PyList(<<PyDict(<<<<PyStr(k), PyStr(v)>>>>)>>) : k \in {"A", "a"}, v \in {"X", "x"}}
    \cup {PyDict(<<<<PyStr(k), PyList(<<PyStr(v)>>)>>>>) : k \in {"A", "a"}, v \in {"X", "x"}}

InitEqual ==
    /\ NoRun
    /\ call \in {[fn |-> f, actual |-> a, expected |-> e, done |-> FALSE, result |-> PyNone] :
                   f \in {"values_equal", "compare"}, a \in EqualValues, e \in EqualValues}

\* the call values_equal(actual, expected)
CallValuesEqual ==
    /\ call.fn = "values_equal"
    /\ ~call.done
    /\ call' = [call EXCEPT !.done = TRUE, !.result = values_equal(call.actual, call.expected)]
    /\ UNCHANGED runVars

\* the comparison of actual with expected in the loop of run_tests
CallCompare ==
    /\ call.fn = "compare"
    /\ ~call.done
    /\ call' = [call EXCEPT !.done = TRUE, !.result = ComparePassed(call.actual, call.expected)]
    /\ UNCHANGED runVars

NextEqual ==
    \/ CallValuesEqual
    \/ CallCompare

SpecEqual == InitEqual /\ [][NextEqual]_vars

\* C16: the comparison of run_tests gives for actual and expected what
\* values_equal gives for the two with every text that decodes to a list or a
\* dict replaced by it, at every level.
C16_ComparisonDecodesAtEveryLevel ==
    (call.fn = "compare" /\ call.done) =>
        call.result = values_equal(Decoded(call.actual), Decoded(call.expected))

\* C17: values_equal(v, v) holds, and values_equal(a, b) is
\* values_equal(b, a), on strings, ints, booleans, lists and dicts with string
\* keys.
C17_EqualityReflexiveSymmetric ==
    (call.fn = "values_equal" /\ call.done) =>
        /\ call.actual = call.expected => call.result = PyBool(TRUE)
        /\ call.result = values_equal(call.expected, call.actual)

\* C17 witness: "A" was compared with "a" and found equal
C17_Witness ==
    /\ call.fn = "values_equal"
    /\ call.done
    /\ call.actual = PyStr("A")
    /\ call.expected = PyStr("a")
    /\ call.result = PyBool(TRUE)

RECURSIVE SameUpToCase(_, _)
\* a and b differ at most in the letter case of string leaves and of keys
SameUpToCase(a, b) ==
    CASE a.t = "str" /\ b.t = "str" -> Lower(a.s) = Lower(b.s)
      [] a.t = "list" /\ b.t = "list" ->
            /\ Len(a.l) = Len(b.l)
            /\ \A j \in 1..Len(a.l) : SameUpToCase(a.l[j], b.l[j])
      [] a.t = "dict" /\ b.t = "dict" ->
            /\ Len(a.d) = Len(b.d)
            /\ \A j \in 1..Len(a.d) : \E k \in 1..Len(b.d) :
                   /\ Lower(a.d[j][1].s) = Lower(b.d[k][1].s)
                   /\ SameUpToCase(a.d[j][2], b.d[k][2])
            /\ \A k \in 1..Len(b.d) : \E j \in 1..Len(a.d) :
                   /\ Lower(a.d[j][1].s) = Lower(b.d[k][1].s)
                   /\ SameUpToCase(a.d[j][2], b.d[k][2])
      [] OTHER -> PyEq(a, b)

RECURSIVE KeysDistinct(_)
\* no dict inside v has two keys that differ in letter case only
KeysDistinct(v) ==
    CASE v.t = "list" -> \A j \in 1..Len(v.l) : KeysDistinct(v.l[j])
      [] v.t = "dict" ->
            /\ \A j, k \in 1..Len(v.d) : j # k => Lower(v.d[j][1].s) # Lower(v.d[k][1].s)
            /\ \A j \in 1..Len(v.d) : KeysDistinct(v.d[j][2])
      [] OTHER -> TRUE

\* C18 as stated: values that differ only in the letter case of string leaves
\* and of keys are equal, and values whose lower-cased forms differ are not.
C18_EqualUpToCase ==
    (call.fn = "values_equal" /\ call.done) =>
        /\ SameUpToCase(call.actual, call.expected) => call.result = PyBool(TRUE)
        /\ ~PyEq(normalize_output(call.actual), normalize_output(call.expected))
               => call.result = PyBool(FALSE)

\* C18, amended: when no dict of the two values has two keys that differ in
\* letter case only, the values are equal exactly when they differ at most
\* in the letter case of string leaves and of keys, which is when their
\* lower-cased forms are equal; {"A": "X"} equals {"a": "x"}.
C18_EqualUpToCaseOnDistinctKeys ==
    (/\ call.fn = "values_equal"
     /\ call.done
     /\ KeysDistinct(call.actual)
     /\ KeysDistinct(call.expected)) =>
        /\ call.result = PyBool(SameUpToCase(call.actual, call.expected))
        /\ call.result = PyBool(PyEq(normalize_output(call.actual),
                                      normalize_output(call.expected)))
        /\ (/\ call.actual = PyDict(<<<<PyStr("A"), PyStr("X")>>>>)
            /\ call.expected = PyDict(<<<<PyStr("a"), PyStr("x")>>>>))
               => call.result = PyBool(TRUE)

\* C18 witness: {"A": "X"} was compared with {"a": "x"} and found equal
C18_Witness ==
    /\ call.fn = "values_equal"
    /\ call.done
    /\ call.actual = PyDict(<<<<PyStr("A"), PyStr("X")>>>>)
    /\ call.expected = PyDict(<<<<PyStr("a"), PyStr("x")>>>>)
    /\ call.result = PyBool(TRUE)

----------------------------------------------------------------------------
(* check_assert_types on its own *)

\* the input signatures of the records that are checked
AssertInputs ==
    {SigAbsent, SigSingle(<<"integer">>), SigSingle(<<"array", "integer">>)}
    \cup {SigList(cs) : cs \in ListsOver({<<"integer">>, <<"string">>}, MaxListLen)}
    \cup {SigList(<<c>>) : c \in {<<"array", "integer">>, <<"array", "array", "integer">>,
                                     <<"hash", "integer">>}}

\* single arguments with integers at the ends of the range, at several depths
\* and inside texts
EdgeArguments ==
    {PyBigInt(21474, 83646), PyBigInt(21474, 83647), PyBigInt(-21475, 16352),
     PyBigInt(-21475, 16351), PyBool(TRUE),
     PyList(<<PyInt(5), PyBigInt(21474, 83647)>>), PyList(<<PyBigInt(21474, 83646)>>),
     PyStr("[2147483647]"), PyStr("[2147483646]"), PyStr("[\"[2147483647]\"]"),
     PyList(<<PyStr("[2147483647]")>>), PyList(<<PyList(<<PyBigInt(21474, 83647)>>)>>),
     PyList(<<PyStr("[2147483646]")>>),
     PyDict(<<<<PyStr("a"), PyBigInt(21474, 83647)>>>>)}

\* the argument lists of the assert
AssertArguments ==
    ListsOver({PyInt(5), PyStr("a")}, MaxListLen) \cup {<<v>> : v \in EdgeArguments}

AssertExpected ==
    {PyInt(5), PyBigInt(21474, 83647), PyStr("[2147483647]"),
     PyList(<<PyBigInt(21474, 83647)>>), PyStr("a")}

AssertOutputs == {SigSingle(c) : c \in {<<"integer">>, <<"array", "integer">>, <<"string">>}}

InitAsserts ==
    /\ NoRun
    /\ call \in {[fn |-> "check_assert_types",
                   data |-> Task(in, out, <<Assertion(args, exp)>>, Ident),
                   display_name |-> "t.toml", done |-> FALSE, result |-> <<>>] :
                   in \in AssertInputs, out \in AssertOutputs,
                   args \in AssertArguments, exp \in AssertExpected}

\* the call check_assert_types(data, display_name)
CallCheckAssertTypes ==
    /\ call.fn = "check_assert_types"
    /\ ~call.done
    /\ call' = [call EXCEPT !.done = TRUE,
                            !.result = check_assert_types(call.data, call.display_name)]
    /\ UNCHANGED runVars

NextAsserts == CallCheckAssertTypes

SpecAsserts == InitAsserts /\ [][NextAsserts]_vars

RECURSIVE IntLeaves(_)
\* the ints (not booleans) at the leaves of a value, at any depth
IntLeaves(v) ==
    CASE v.t = "int" -> {v}
      [] v.t = "list" -> UNION {IntLeaves(v.l[j]) : j \in 1..Len(v.l)}
      [] v.t = "dict" -> UNION {IntLeaves(v.d[j][2]) : j \in 1..Len(v.d)}
      [] OTHER -> {}

\* the ints at the leaves of the arguments and the expected value of an
\* assert, those inside texts that decode to a list or a dict included
AssertIntLeaves(a) ==
    IntLeaves(Decoded(a.expected))
    \cup UNION {IntLeaves(Decoded(a.arguments[j])) : j \in 1..Len(a.arguments)}

\* C11: when check_assert_types accepts a record, every int leaf of the
\* arguments and the expected value of its asserts, at any depth and inside
\* JSON texts, lies in -2147483648 .. 2147483646.
C11_LoadedIntLeavesInRange ==
    (call.fn = "check_assert_types" /\ call.done /\ call.result = <<>>) =>
        \A j \in 1..Len(call.data.asserts) :
            \A v \in AssertIntLeaves(call.data.asserts[j]) : InInt32Range(v)

\* C11 witness: an assert whose argument is a list that holds the text
\* "[2147483646]" was accepted
C11_Witness ==
    /\ call.fn = "check_assert_types"
    /\ call.done
    /\ call.result = <<>>
    /\ call.data.asserts[1].arguments = <<PyList(<<PyStr("[2147483646]")>>)>>

\* the input arity of a record
Arity(data) ==
    CASE data.input_signature.form = "absent" -> 0
      [] data.input_signature.form = "single" -> 1
      [] OTHER -> Len(data.input_signature.sigs)

\* the i-th descriptor of the input signature
Descriptor(data, i) ==
    IF data.input_signature.form = "single" THEN data.input_signature.type
    ELSE data.input_signature.sigs[i].type

\* C13: the arity is 0 without input_signature, 1 for a single descriptor and
\* the length of a list; an assert with another number of arguments is
\* rejected with an error that tells the count, and otherwise argument i is
\* checked against descriptor i: the assert is accepted exactly when every
\* argument matches its descriptor and lies in its bounds and the expected
\* value does, and the error names the first argument that does not match.
C13_ArityThenPositionalCheck ==
    (call.fn = "check_assert_types" /\ call.done) =>
        LET d == call.data
            a == d.asserts[1]
            n == Len(a.arguments)
            r == call.result
            path(i) == <<"arguments[", ToString(i - 1), "]">>
            out == d.output_signature.type
            bad == {i \in 1..n : ~type_matches(Descriptor(d, i), a.arguments[i], path(i)).ok}
        IN
        IF n # Arity(d)
        THEN /\ r # <<>>
             /\ SubSeq(r, 1, 4) = <<"[", call.display_name, "] Assert #", "1">>
             /\ r[5] \in {": has ", ": expected ", ": expected 1 argument per input_signature, got "}
             /\ Contains(r, ToString(n))
        ELSE /\ (r = <<>>) <=>
                    /\ bad = {}
                    /\ \A i \in 1..n :
                           check_int_bounds(Descriptor(d, i), a.arguments[i], path(i)) = <<>>
                    /\ type_matches(out, a.expected, <<"expected">>).ok
                    /\ check_int_bounds(out, a.expected, <<"expected">>) = <<>>
             /\ (bad # {} /\ \A i \in 1..n : i \notin bad =>
                      check_int_bounds(Descriptor(d, i), a.arguments[i], path(i)) = <<>>) =>
                    LET first == CHOOSE i \in bad : \A k \in bad : i <= k IN
                    /\ r[5] = ": argument "
                    /\ r[6] = ToString(first)

\* C13 witness: an assert with the arguments 5 and "a" was accepted for the
\* descriptors integer and string, in this order
C13_Witness ==
    /\ call.fn = "check_assert_types"
    /\ call.done
    /\ call.data.input_signature = SigList(<<<<"integer">>, <<"string">>>>)
    /\ call.data.asserts[1].arguments = <<PyInt(5), PyStr("a")>>
    /\ call.result = <<>>


\* the message r holds the path p
Mentions(r, p) == \E k \in 1..(Len(r) - Len(p) + 1) : SubSeq(r, k, k + Len(p) - 1) = p

\* the value does not match the descriptor, or holds an integer out of range
Violates(sig, value, path) ==
    \/ ~type_matches(sig, value, path).ok
    \/ check_int_bounds(sig, value, path) # <<>>

\* C24: the error of one pass of check_assert_types names every value of the
\* assert that violates the type or the integer-range rule: every such
\* argument and the expected value, not the first of them only.
C24_EveryViolationReported ==
    (/\ call.fn = "check_assert_types"
     /\ call.done
     /\ Len(call.data.asserts[1].arguments) = Arity(call.data)) =>
        LET d == call.data
            a == d.asserts[1]
            path(i) == <<"arguments[", ToString(i - 1), "]">>
        IN
        /\ \A i \in 1..Len(a.arguments) :
               Violates(Descriptor(d, i), a.arguments[i], path(i)) =>
                   Mentions(call.result, path(i))
        /\ Violates(d.output_signature.type, a.expected, <<"expected">>) =>
               Mentions(call.result, <<"expected">>)

----------------------------------------------------------------------------
(* The end of load_toml_data on its own *)

\* the assert counts around the threshold
Counts == 0..(MinAsserts + MaxAsserts)

InitCount ==
    /\ NoRun
    /\ call \in {[fn |-> "load_end", skip |-> b, n |-> k, solution_code |-> c,
                   done |-> FALSE, result |-> [warning |-> FALSE, error |-> <<>>]] :
                   b \in BOOLEAN, k \in Counts, c \in {"", Ident}}

\* the end of load_toml_data, lines 203 to 213
CallLoadEnd ==
    /\ call.fn = "load_end"
    /\ ~call.done
    /\ call' = [call EXCEPT !.done = TRUE,
                            !.result = load_end(call.skip, call.n, call.solution_code)]
    /\ UNCHANGED runVars

NextCount == CallLoadEnd

SpecCount == InitCount /\ [][NextCount]_vars

\* C22: a record with an implementation text and 1 to 29 asserts loads
\* under both settings of skip_assert_count, with the warning exactly when
\* the count is checked; with 30 asserts or more there is no warning under
\* either setting.
C22_WarningBelowThresholdOnly ==
    (call.fn = "load_end" /\ call.done /\ call.solution_code # "") =>
        /\ call.n \in 1..29 =>
               /\ call.result.error = <<>>
               /\ call.result.warning <=> ~call.skip
        /\ call.n >= 30 =>
               /\ call.result.error = <<>>
               /\ ~call.result.warning

\* C22 witness: a record of 29 asserts was loaded with the count checked,
\* with the warning and without an error
C22_Witness ==
    /\ call.fn = "load_end"
    /\ call.done
    /\ call.n = 29
    /\ ~call.skip
    /\ call.solution_code # ""
    /\ call.result = [warning |-> TRUE, error |-> <<>>]

----------------------------------------------------------------------------
(* find_difference on its own *)

\* lists of ints of several lengths, lists of lists, and dicts with a key
\* that only one side has
DiffValues ==
    EqualLeaves
    \cup EqualDicts
    \cup {PyList(l) : l \in ListsOver({PyInt(1), PyInt(2), PyInt(3)}, MaxListLen + 1)}
    \cup {PyList(<<PyList(<<PyInt(1)>>), PyList(<<PyInt(2), PyInt(3)>>)>>),
          PyList(<<PyList(<<PyInt(1), PyInt(2)>>)>>),
          PyList(<<PyDict(<<<<PyStr("a"), PyInt(1)>>>>)>>),
          PyList(<<PyInt(1), PyStr("X")>>), PyList(<<PyInt(1), PyStr("x")>>),
          PyDict(<<<<PyStr("a"), PyInt(1)>>, <<PyStr("b"), PyInt(2)>>>>),
          PyDict(<<<<PyStr("b"), PyInt(2)>>>>),
          PyDict(<<<<PyStr("a"), PyList(<<PyInt(1)>>)>>>>),
          PyDict(<<<<PyStr("a"), PyList(<<PyInt(1), PyInt(2)>>)>>>>)}

InitDiff ==
    /\ NoRun
    /\ call \in {[fn |-> "find_difference", actual |-> a, expected |-> e, path |-> <<>>,
                   done |-> FALSE, result |-> Differences(<<>>)] :
                   a \in DiffValues, e \in DiffValues}

\* the call find_difference(actual, expected)
CallFindDifference ==
    /\ call.fn = "find_difference"
    /\ ~call.done
    /\ call' = [call EXCEPT !.done = TRUE,
                            !.result = find_difference(call.actual, call.expected, call.path)]
    /\ UNCHANGED runVars

NextDiff == CallFindDifference

SpecDiff == InitDiff /\ [][NextDiff]_vars

\* the entries find_difference owes to index i (0-based) of two lists
PerIndex(actual, expected, path, i) ==
    LET a == actual[i + 1]
        e == expected[i + 1]
        new_path == path \o <<"[", ToString(i), "]">>
    IN IF values_equal(a, e) = PyBool(TRUE) THEN <<>>
       ELSE IF IsContainer(a) /\ IsContainer(e) THEN find_difference(a, e, new_path).l
       ELSE <<Difference(new_path, "expected", e, a)>>

\* C25: for two lists of different length the result is the length entry
\* with both counts, then the differences of the indices below the shorter
\* length in order, then an extra element entry for every index actual has
\* beyond it and a missing element entry for every index expected has beyond
\* it, as many as the lengths differ; for expected [1, 2, 3] and actual
\* [1, 2] it is the length entry and the missing element entry of index 2.
C25_LengthEntryThenTail ==
    (/\ call.fn = "find_difference"
     /\ call.done
     /\ call.actual.t = "list"
     /\ call.expected.t = "list"
     /\ Len(call.actual.l) # Len(call.expected.l)) =>
        LET a == call.actual.l
            e == call.expected.l
            r == call.result.l
            n == Min(Len(a), Len(e))
            extra == Len(a) - n
            missing == Len(e) - n
            mid == Len(r) - extra - missing
            at(i) == call.path \o <<"[", ToString(i), "]">>
        IN
        /\ mid >= 1
        /\ r[1] = Difference(call.path, "different number of elements",
                             PyInt(Len(e)), PyInt(Len(a)))
        /\ \A j \in 2..Len(r) :
               ~(r[j].path = call.path /\ r[j].what = "different number of elements")
        /\ SubSeq(r, 2, mid) = ConcatAll([k \in 1..n |-> PerIndex(a, e, call.path, k - 1)], 1)
        /\ \A j \in 1..extra :
               r[mid + j] = Difference(at(n + j - 1), "extra element", PyNone, a[n + j])
        /\ \A j \in 1..missing :
               r[mid + extra + j] = Difference(at(n + j - 1), "missing element", e[n + j], PyNone)
        /\ Cardinality({j \in 1..Len(r) : /\ r[j].what \in {"extra element", "missing element"}
                                          /\ Len(r[j].path) = Len(call.path) + 3})
               = (IF Len(a) > Len(e) THEN Len(a) - Len(e) ELSE Len(e) - Len(a))
        /\ (/\ e = <<PyInt(1), PyInt(2), PyInt(3)>>
            /\ a = <<PyInt(1), PyInt(2)>>) =>
               r = <<Difference(<<>>, "different number of elements", PyInt(3), PyInt(2)),
                     Difference(<<"[", "2", "]">>, "missing element", PyInt(3), PyNone)>>

\* C25 witness: find_difference was called with actual [1, 2] and expected
\* [1, 2, 3] and returned two entries
C25_Witness ==
    /\ call.fn = "find_difference"
    /\ call.done
    /\ call.expected = PyList(<<PyInt(1), PyInt(2), PyInt(3)>>)
    /\ call.actual = PyList(<<PyInt(1), PyInt(2)>>)
    /\ Len(call.result.l) = 2

\* C30 as stated: whenever values_equal(actual, expected) is false,
\* find_difference(actual, expected) returns at least one entry.
C30_UnequalHasADifference ==
    (/\ call.fn = "find_difference"
     /\ call.done
     /\ values_equal(call.actual, call.expected) = PyBool(FALSE)) =>
        call.result.l # <<>>

\* C30, amended: when no dict of the two values has two keys that differ in
\* letter case only and values_equal(actual, expected) is false,
\* find_difference(actual, expected) returns at least one entry.
C30_UnequalHasADifferenceOnDistinctKeys ==
    (/\ call.fn = "find_difference"
     /\ call.done
     /\ KeysDistinct(call.actual)
     /\ KeysDistinct(call.expected)
     /\ values_equal(call.actual, call.expected) = PyBool(FALSE)) =>
        call.result.l # <<>>

\* C30 witness: {"A": 1} was compared with the expected {"a": 2}, which
\* values_equal finds unequal, and got the entries of a missing and of an
\* extra key
C30_Witness ==
    /\ call.fn = "find_difference"
    /\ call.done
    /\ call.actual = PyDict(<<<<PyStr("A"), PyInt(1)>>>>)
    /\ call.expected = PyDict(<<<<PyStr("a"), PyInt(2)>>>>)
    /\ values_equal(call.actual, call.expected) = PyBool(FALSE)
    /\ Len(call.result.l) = 2


----------------------------------------------------------------------------
(* Properties of the run: results and reports *)

\* the record of the file has no asserts, or no implementation text
IsEmptyTask(data) == data.asserts = <<>> \/ SolutionCode(data) = ""

\* C21: no artifact is written for a file whose record has no asserts or no
\* implementation text, under either setting of skip_assert_count and
\* whatever the other files hold.
C21_NoArtifactForEmptyTask ==
    \A f \in DOMAIN toml_files :
        IsEmptyTask(toml_files[f]) => JsonPath(f) \notin DOMAIN release

\* the lists of TestResult the run holds, by file: those stored in results
\* and the one being built
ResultLists ==
    [f \in DOMAIN results \cup (IF pc = "run_cases" THEN {CurFile} ELSE {}) |->
        IF pc = "run_cases" /\ f = CurFile THEN test_results ELSE results[f].test_results]

\* C28: a TestResult that passed holds an actual value that matches
\* output_signature and that the comparison of run_tests (values_equal, on
\* the decoded values when both decode) finds equal to the expected value
\* of its assert, and no result of a case whose call or comparison raised
\* has passed.
C28_PassedResultsMatchAndEqual ==
    \A f \in DOMAIN ResultLists :
        \A k \in 1..Len(ResultLists[f]) :
            LET r == ResultLists[f][k]
                data == toml_files[f]
                case == data.asserts[k]
                returned == Invoke(data.solution, case.arguments)
                raised == \/ IsRaise(returned)
                          \/ IsRaise(ComparePassed(returned, case.expected))
            IN
            /\ r.expected = case.expected
            /\ r.passed =>
                   /\ type_matches(data.output_signature.type, r.actual, <<"actual">>).ok
                   /\ ComparePassed(r.actual, r.expected) = PyBool(TRUE)
            /\ raised => ~r.passed

\* C28 witness: a run stored a passed result next to a result of a call
\* that raised
C28_Witness ==
    \E f \in DOMAIN results :
        LET rs == results[f].test_results IN
        /\ \E k \in 1..Len(rs) : rs[k].passed
        /\ \E k \in 1..Len(rs) :
               IsRaise(Invoke(toml_files[f].solution, toml_files[f].asserts[k].arguments))

\* print_results was called and the process has ended
Reporting == pc = "exited" /\ ~has_errors

\* the number of printed lines of this kind, for the file f
Count(kind, f) ==
    Cardinality({j \in 1..Len(printed) : printed[j].kind = kind /\ printed[j].file = f})

\* C29: one call of print_results calls create_release_folder at most once,
\* and after the first overall block has released or exited none of the
\* repeated blocks runs: with tests in the results every file is summed up
\* once, the release is made once and with status 0 when every test passed,
\* and not at all with status 1.
C29_OneReportingBlock ==
    Reporting =>
        /\ Count("created", 0) <= 1
        /\ TotalTests(results) > 0 =>
               /\ \A f \in DOMAIN results : Count("summary", f) = 1
               /\ IF TotalPassed(results) = TotalTests(results)
                  THEN Count("created", 0) = 1 /\ exit_status = "0"
                  ELSE Count("created", 0) = 0 /\ exit_status = "1"

\* C29 witness: print_results reported two files of which every test passed
\* and made the release
C29_Witness ==
    /\ Reporting
    /\ Cardinality(DOMAIN results) = 2
    /\ TotalTests(results) > 0
    /\ Count("created", 0) = 1
    /\ exit_status = "0"


\* the run under its scheduling: one thread that always takes its next step
SpecFair == Spec /\ WF_vars(Next)

\* load_toml_data returns for the record of the file f
LoadsOk(f) ==
    /\ load_end(skip_assert_count, Len(toml_files[f].asserts),
                SolutionCode(toml_files[f])).error = <<>>
    /\ PassesValidation(toml_files[f], f)

\* the run is past the call of load_toml_data for the file f
PastLoad(f) ==
    \/ f < file_idx
    \/ f = file_idx /\ pc \notin {"loop", "check_assert_types"}

\* the state of the file f in the run
FileState(f) ==
    IF PrintedFor("summary", f) THEN "Reported"
    ELSE IF f \in DOMAIN results
    THEN IF AllPassed(results[f].test_results) THEN "FullyPassed" ELSE "PartiallyFailed"
    ELSE IF f \in DOMAIN toml_files /\ PastLoad(f) /\ LoadsOk(f) THEN "Loaded"
    ELSE "Unloaded"

\* the moves of a file from state to state
FileMoves ==
    {<<"Unloaded", "Loaded">>, <<"Loaded", "PartiallyFailed">>, <<"Loaded", "FullyPassed">>,
     <<"PartiallyFailed", "Reported">>, <<"FullyPassed", "Reported">>}

\* every step leaves the state of every file or makes one of the moves
FilesMoveAlongTheChain ==
    \A f \in Files : FileState(f)' = FileState(f) \/ <<FileState(f), FileState(f)'>> \in FileMoves

\* at the end of a run that no critical error stopped, every file with
\* results is reported
ExecutedFilesAreReported ==
    (pc = "exited" /\ ~Printed("critical")) =>
        \A f \in DOMAIN results : FileState(f) = "Reported"

\* C23: a file moves only from Unloaded to Loaded, from Loaded to
\* PartiallyFailed or FullyPassed and from there to Reported, and when the
\* run ends without the stop of a critical error, every file whose asserts
\* were run has been reported: its summary was printed.
C23_FilesReachReported == [][FilesMoveAlongTheChain]_vars /\ []ExecutedFilesAreReported

====
